---- MODULE Spec2Model ----
(***************************************************************************)
(* Watchlist front end: the home page's data load (Home.fetchHomeData).    *)
(*                                                                         *)
(* fetchHomeData is one async function.  Its suspension points (await) are *)
(* the boundaries of the actions below; everything the code does between   *)
(* two awaits is one action.  The tracking backend and the catalogue       *)
(* (TMDB proxy) are outside the repository's front end: every request      *)
(* either fails (the promise rejects) or answers with JSON of the shape    *)
(* the code reads.                                                         *)
(*                                                                         *)
(* Records.  A tracking record carries tmdb_movie_id and tmdb_show_id; the *)
(* one that is absent in JavaScript (undefined) is 0 here, like every      *)
(* other absent number; an absent boolean is FALSE.  Catalogue detail data *)
(* is merged into a tracking record by object spread; of the catalogue's   *)
(* fields fetchHomeData reads only backdrop_path, so a merged record is    *)
(* the tracking record plus backdrop_path (TRUE: a non-empty image path,   *)
(* FALSE: null or absent) and media_type.                                  *)
(***************************************************************************)
EXTENDS Integers, Sequences, FiniteSets, TLC

\* ------------------------------------------------------------------ bounds
MaxLib == 3         \* tracked titles of one kind in the slot/order/seed families
MaxPool == 2        \* tracked titles of one kind in the pool-membership family
MaxUpcoming == 3    \* length of an upcoming list in the slot families
MaxPoolUpcoming == 1 \* length of an upcoming list in the pool-membership family
NumFresh == 2       \* catalogue ids that belong to no tracked title
MaxShelf == 2       \* tracked titles of one kind on the Library page
NumTitles == 2      \* catalogue ids of one kind a caller of the API uses
MaxClock == 2       \* upserts sent to the store in one behaviour
MaxInflight == 2    \* saves of a detail page awaiting their answer at once
NumSeasons == 2     \* seasons of a show in the catalogue

\* ------------------------------------------------------- program constants
RecCap == 20        \* .slice(0, 20)

\* Ratings are 0..5 in the program; fetchHomeData only compares them (and
\* tests them for 0), so three values realise every order of three titles.
Ratings == {0, 3, 5}
\* (watched_episodes, total_episodes) pairs; total 0 is "unknown".
Progresses == {<<0, 0>>, <<1, 0>>, <<0, 2>>, <<1, 2>>, <<2, 2>>}

FreshIds == (MaxLib + 1)..(MaxLib + NumFresh)
MaxSimilar == RecCap + MaxLib + 2

\* ----------------------------------------------------------------- helpers
SeqsUpTo(n, S) == UNION {[1..k -> S] : k \in 0..n}

Range(s) == {s[i] : i \in 1..Len(s)}

\* Array.prototype.filter is SelectSeq.

\* a field of an object, 0 when the object has no such field (undefined)
Field(o, f) == IF f \in DOMAIN o THEN o[f] ELSE 0

ShowRec(i, fav, wl, r, we, te) ==
    [tmdb_show_id |-> i, tmdb_movie_id |-> 0, watched |-> FALSE,
     favourited |-> fav, watchlisted |-> wl, rating |-> r,
     watched_episodes |-> we, total_episodes |-> te]

MovieRec(i, fav, wl, r, w) ==
    [tmdb_show_id |-> 0, tmdb_movie_id |-> i, watched |-> w,
     favourited |-> fav, watchlisted |-> wl, rating |-> r,
     watched_episodes |-> 0, total_episodes |-> 0]

\* an item of a catalogue list (upcoming, similar)
CatItem(i, bd) == [id |-> i, backdrop_path |-> bd]

\* ------------------------------------------------ fetchHomeData: pure parts
\* Array.prototype.sort is stable and puts a before b when compare(a, b) <= 0;
\* SortBy inserts each element after every earlier one it does not precede.
\* fault variant of SeedCompare: ascending
SeedCompareAscending(a, b) == a.rating - b.rating

SeedCompare(a, b) == b.rating - a.rating

\* fault variant of LibCompare: the favourite flag is not compared
LibCompareRatingOnly(a, b) == b.rating - a.rating

LibCompare(a, b) ==
    IF b.favourited # a.favourited
    THEN (IF b.favourited THEN 1 ELSE -1)
    ELSE b.rating - a.rating

Compare(c, a, b) == IF c = "lib" THEN LibCompare(a, b) ELSE SeedCompare(a, b)

RECURSIVE InsertBy(_, _, _)
InsertBy(c, x, s) ==
    IF s = <<>> THEN <<x>>
    ELSE IF Compare(c, Head(s), x) > 0 THEN <<x>> \o s
    ELSE <<Head(s)>> \o InsertBy(c, x, Tail(s))

RECURSIVE SortBy(_, _)
SortBy(c, s) ==
    IF s = <<>> THEN <<>>
    ELSE InsertBy(c, s[Len(s)], SortBy(c, SubSeq(s, 1, Len(s) - 1)))

\* { ...movie, ...tmdbData, media_type, tmdb_movie_id } / the catch branch
Enrich(rec, kind, outcome) ==
    [tmdb_show_id |-> rec.tmdb_show_id, tmdb_movie_id |-> rec.tmdb_movie_id,
     watched |-> rec.watched, favourited |-> rec.favourited,
     watchlisted |-> rec.watchlisted, rating |-> rec.rating,
     watched_episodes |-> rec.watched_episodes,
     total_episodes |-> rec.total_episodes,
     media_type |-> kind,
     backdrop_path |-> (outcome = "backdrop")]

EnrichAll(list, kind, outcomes) ==
    [i \in 1..Len(list) |-> Enrich(list[i], kind, outcomes[i])]

\* (data.results || []).map(x => ({ ...x, media_type }))
UpcomingItems(resp, kind) ==
    LET results == IF resp.has_results THEN resp.results ELSE <<>>
    IN  [i \in 1..Len(results) |->
            [id |-> results[i].id, backdrop_path |-> results[i].backdrop_path,
             media_type |-> kind]]

ValidMovies(mwd) ==
    LET Test(m) == m.tmdb_movie_id # 0 /\ ~(m.tmdb_show_id # 0)
    IN  SelectSeq(mwd, Test)

ValidShows(swd) ==
    LET Test(s) == s.tmdb_show_id # 0 /\ ~(s.tmdb_movie_id # 0)
    IN  SelectSeq(swd, Test)

\* s.watched_episodes < (s.total_episodes || Infinity)
InProgressShows(vs) ==
    LET Test(s) == /\ s.watched_episodes > 0
                   /\ (s.total_episodes = 0 \/ s.watched_episodes < s.total_episodes)
    IN  SelectSeq(vs, Test)

ToWatch(vm, vs) ==
    LET Test(x) == x.watchlisted
    IN  SelectSeq(vm, Test) \o SelectSeq(vs, Test)

AllFavourites(vm, vs) ==
    LET Test(x) == x.favourited
    IN  SelectSeq(vm, Test) \o SelectSeq(vs, Test)

\* s.tmdb_show_id || s.id
ShowIdOf(s) == IF Field(s, "tmdb_show_id") # 0 THEN s.tmdb_show_id ELSE s.id
\* m.tmdb_movie_id || m.id
MovieIdOf(m) == IF Field(m, "tmdb_movie_id") # 0 THEN m.tmdb_movie_id ELSE m.id

\* fault variant of TrackedShowIds: only the shows the user has rated
TrackedShowIdsRated(vs) ==
    {ShowIdOf(vs[i]) : i \in {n \in 1..Len(vs) : vs[n].rating > 0}}

TrackedShowIds(vs) == {ShowIdOf(vs[i]) : i \in 1..Len(vs)}

\* [...validShows].sort((a, b) => b.rating - a.rating)[0]; <<>> is undefined
SeedShow(vs) ==
    LET sorted == SortBy("seed", vs)
    IN  IF sorted = <<>> THEN <<>> ELSE <<sorted[1]>>

\* fault variant of TvRecs: the cap is applied before the filter
TvRecsCapFirst(similar, tracked) ==
    LET results == IF similar.has_results THEN similar.results ELSE <<>>
        capped == SubSeq(results, 1, IF Len(results) < RecCap THEN Len(results) ELSE RecCap)
        Test(s) == s.id \notin tracked
        kept == SelectSeq(capped, Test)
    IN  [i \in 1..Len(kept) |->
            [id |-> kept[i].id, backdrop_path |-> kept[i].backdrop_path,
             media_type |-> "tv"]]

\* (similar.results || []).filter(...).map(...).slice(0, 20)
TvRecs(similar, tracked) ==
    LET results == IF similar.has_results THEN similar.results ELSE <<>>
        Test(s) == s.id \notin tracked
        kept == SelectSeq(results, Test)
        mapped == [i \in 1..Len(kept) |->
                      [id |-> kept[i].id, backdrop_path |-> kept[i].backdrop_path,
                       media_type |-> "tv"]]
    IN  SubSeq(mapped, 1, IF Len(mapped) < RecCap THEN Len(mapped) ELSE RecCap)

\* ------------------------------------------------------------- hero pools
\* fault variant of LibShowFilter: the backdrop is not required
LibShowFilterAnyBackdrop(s) == s.watchlisted \/ s.watched_episodes > 0

LibShowFilter(s) == s.backdrop_path /\ (s.watchlisted \/ s.watched_episodes > 0)

LibFilmFilter(m) == m.backdrop_path /\ (m.watchlisted \/ m.watched)

LibShowsSorted(vs) == SortBy("lib", SelectSeq(vs, LibShowFilter))

LibFilmsSorted(vm) == SortBy("lib", SelectSeq(vm, LibFilmFilter))

LibShowIds(vs) == {vs[i].tmdb_show_id : i \in 1..Len(vs)}

LibFilmIds(vm) == {vm[i].tmdb_movie_id : i \in 1..Len(vm)}

\* fault variant of UpcomingTVHero: only the ids of the library hero pool
\* are excluded
UpcomingTVHeroPoolOnly(upTV, vs) ==
    LET pool == SelectSeq(vs, LibShowFilter)
        Test(s) == s.backdrop_path /\ s.id \notin LibShowIds(pool)
    IN  SelectSeq(upTV, Test)

UpcomingTVHero(upTV, vs) ==
    LET Test(s) == s.backdrop_path /\ s.id \notin LibShowIds(vs)
    IN  SelectSeq(upTV, Test)

UpcomingFilmsHero(upM, vm) ==
    LET Test(m) == m.backdrop_path /\ m.id \notin LibFilmIds(vm)
    IN  SelectSeq(upM, Test)

\* ------------------------------------------------------------- hero slots
\* `tv-${...}` / `movie-${...}`: a key is the pair of its two parts
TvKey(s) == <<"tv", ShowIdOf(s)>>

FilmKey(m) == <<"movie", MovieIdOf(m)>>

KeyOf(kind, x) == IF kind = "tv" THEN TvKey(x) ELSE FilmKey(x)

\* fault variant of Take: heroUsed is not consulted
TakeIgnoringUsed(pool, kind, used) == IF pool = <<>> THEN 0 ELSE 1

\* take(pool, keyFn): the index of the first item whose key is not in
\* heroUsed, 0 for null
Take(pool, kind, used) ==
    LET free == {i \in 1..Len(pool) : KeyOf(kind, pool[i]) \notin used}
    IN  IF free = {} THEN 0 ELSE CHOOSE i \in free : \A j \in free : i <= j

\* The entry pushed to built, { ...item, [media_type,] hero_type }, kept to
\* the fields the carousel identifies it by: id is the id its key is made of.
HeroEntry(item, kind, htype) ==
    [media_type |-> kind, id |-> KeyOf(kind, item)[2],
     backdrop_path |-> item.backdrop_path, hero_type |-> htype]

\* fault variant of FillSlot: an empty slot is padded with a placeholder
FillSlotPadded(h, primary, ptype, fallback, ftype, kind) ==
    LET i == Take(primary, kind, h.used)
    IN  IF i # 0
        THEN [built |-> Append(h.built, HeroEntry(primary[i], kind, ptype)),
              used |-> h.used \cup {KeyOf(kind, primary[i])}]
        ELSE LET j == Take(fallback, kind, h.used)
             IN  IF j # 0
                 THEN [built |-> Append(h.built, HeroEntry(fallback[j], kind, ftype)),
                       used |-> h.used \cup {KeyOf(kind, fallback[j])}]
                 ELSE [built |-> Append(h.built,
                                        [media_type |-> kind, id |-> 0,
                                         backdrop_path |-> FALSE, hero_type |-> ptype]),
                       used |-> h.used]

\* one slot: h is [built, used] (built and heroUsed)
FillSlot(h, primary, ptype, fallback, ftype, kind) ==
    LET i == Take(primary, kind, h.used)
    IN  IF i # 0
        THEN [built |-> Append(h.built, HeroEntry(primary[i], kind, ptype)),
              used |-> h.used \cup {KeyOf(kind, primary[i])}]
        ELSE LET j == Take(fallback, kind, h.used)
             IN  IF j # 0
                 THEN [built |-> Append(h.built, HeroEntry(fallback[j], kind, ftype)),
                       used |-> h.used \cup {KeyOf(kind, fallback[j])}]
                 ELSE h

HeroSlot1(h, ls, lf, ut, uf) == FillSlot(h, ls, "library_tv", ut, "coming_soon_tv", "tv")

HeroSlot2(h, ls, lf, ut, uf) == FillSlot(h, lf, "library_film", uf, "coming_soon_film", "movie")

HeroSlot3(h, ls, lf, ut, uf) == FillSlot(h, ls, "library_tv", ut, "coming_soon_tv", "tv")

\* fault variant of HeroSlot4: the library is asked before the upcoming list
HeroSlot4LibraryFirst(h, ls, lf, ut, uf) ==
    FillSlot(h, ls, "library_tv", ut, "coming_soon_tv", "tv")

HeroSlot4(h, ls, lf, ut, uf) == FillSlot(h, ut, "coming_soon_tv", ls, "library_tv", "tv")

HeroSlot5(h, ls, lf, ut, uf) == FillSlot(h, uf, "coming_soon_film", lf, "library_film", "movie")

BuildHero(ls, lf, ut, uf) ==
    LET h0 == [built |-> <<>>, used |-> {}]
        h1 == HeroSlot1(h0, ls, lf, ut, uf)
        h2 == HeroSlot2(h1, ls, lf, ut, uf)
        h3 == HeroSlot3(h2, ls, lf, ut, uf)
        h4 == HeroSlot4(h3, ls, lf, ut, uf)
        h5 == HeroSlot5(h4, ls, lf, ut, uf)
    IN  h5.built

\* ------------------------------------------------------------------ state
VARIABLES
    pc,                    \* where fetchHomeData is suspended
    loading, error,        \* useState(true), useState(null)
    allMovies, allShows, movieRecommendations,   \* results of the first await
    upcomingMovies, upcomingTV,
    moviesWithDetails, showsWithDetails,
    similar,               \* the similar-shows response, once settled
    similarRequests,       \* the seed id of every getSimilarTVShows request issued
    watchingShows, toWatchItems, favouriteItems, \* the page's useState rows
    comingSoon, comingSoonTV, recommendedShows, recommendedMovies,
    heroItems

locals == <<allMovies, allShows, movieRecommendations, upcomingMovies,
            upcomingTV, moviesWithDetails, showsWithDetails, similar,
            similarRequests>>

rows == <<watchingShows, toWatchItems, favouriteItems, comingSoon,
          comingSoonTV, recommendedShows, recommendedMovies, heroItems>>

homeVars == <<pc, loading, error, locals, rows>>

\* The Library page (Library, fetchLibraryData).  Its loading flag and its
\* moviesWithDetails are called loading and moviesWithDetails in the source,
\* names the home page's state has here.
VARIABLES
    libraryPc,             \* where fetchLibraryData is suspended
    libraryLoading,        \* useState(true)
    moviesData, showsData, \* results of the first await
    libraryMoviesWithDetails,
    movies, shows,         \* useState([]), useState([])
    mediaType,             \* useState('all')
    activeFilter,          \* useState('watching')
    searchQuery            \* useState(''), a string as its characters

libraryVars == <<libraryPc, libraryLoading, moviesData, showsData,
                 libraryMoviesWithDetails, movies, shows, mediaType,
                 activeFilter, searchQuery>>

\* What the tracking backend answers to the two getAll requests of the active
\* profile, [movies, shows], while no mutation is made; <<>> where a
\* specification draws the answers request by request.
VARIABLE profile

\* The tracking backend (backend/app/routers/tracking.py, tv_tracking.py) is
\* not among the sources; its store is modelled from the specification:
\* the records of one profile, and the server's clock.
VARIABLES
    movieStore,            \* catalogue movie id -> MovieTrackingRecord
    showStore,             \* catalogue show id -> ShowTrackingRecord
    episodeStore,          \* <<show, season, episode>> -> watched
    now                    \* the clock: the upserts sent so far

storeVars == <<movieStore, showStore, episodeStore, now>>

\* A caller of the API client (trackingAPI): the two latest requests it has
\* sent that were not lookups, the latest last, each with the status it was
\* answered with, and what its latest call came to.
VARIABLES
    requestLog,
    apiResult

callerVars == <<requestLog, apiResult>>

\* The movie detail page of one movie (MovieDetailPage, MovieDetail).
VARIABLES
    moviePage,             \* MovieDetailPage: loading, error, trackingData
    movieDetail,           \* MovieDetail: watched, favourited, rating, comment, saving
    moviePending           \* the requests of the autoSave calls that are awaiting

movieDetailVars == <<moviePage, movieDetail, moviePending>>

\* The show detail page of one show (TVShowDetail).
VARIABLES
    showPage,              \* loading, error, trackingData, episodes
    showDetail,            \* favourited, watchlisted, rating, comment, saving
    showTasks              \* the handler that is awaiting, and where

showDetailVars == <<showPage, showDetail, showTasks>>

detailVars == <<movieDetailVars, showDetailVars>>

\* The hero carousel of the home page (HeroCarousel).
VARIABLES
    slides,                \* items.length
    idx,                   \* the slide shown
    paused,
    resumeTimer,           \* resumeTimer.current is a timeout that has not fired
    pointerOver,           \* the pointer is over the carousel
    lastMove               \* what changed idx last: "none", "auto" or "dot"

carouselVars == <<slides, idx, paused, resumeTimer, pointerOver, lastMove>>

\* The season list of the show page (SeasonList).
VARIABLES
    trackedEpisodes,       \* the prop: the episode records of the show
    expandedSeason,        \* a season number, 0 for null
    seasonData,            \* season number -> the season's details
    seasonLoading,         \* the state "loading": season number -> BOOLEAN
    seasonFetches,         \* the toggleSeason calls awaiting getTVSeasonDetail
    seasonFetched          \* the seasons a getTVSeasonDetail has answered for

seasonVars == <<trackedEpisodes, expandedSeason, seasonData, seasonLoading,
                seasonFetches, seasonFetched>>

\* The profiles (UserProvider, the API client's active user, localStorage).
VARIABLES
    serverUsers,           \* the ids of the profiles the backend has
    users,                 \* the state "users": the ids of the list fetched
    currentUser,           \* a profile id, 0 for null
    userLoading,
    activeUserId,          \* the client's _activeUserId, 0 for null
    storage,               \* localStorage: <<>> or <<the string stored>>
    chosen,                \* what the user did last: select a profile (its
                           \* id), clear (0), or neither yet (-1)
    restored               \* the current user was set by init

userVars == <<serverUsers, users, currentUser, userLoading, activeUserId,
              storage, chosen, restored>>

\* A handler of the show page that uses the client with the active user,
\* and the backend's records of the page's show, profile by profile.
VARIABLES
    scopeTask,             \* <<>>, or the handler: the profile it was started
                           \* under and the request it is awaiting
    scopedSent,            \* <<>>, or the request sent last, with the profile
                           \* its handler was started under
    profileData            \* profile id -> what has been written for it, each
                           \* with the profile the handler was started under

scopeVars == <<scopeTask, scopedSent, profileData>>

widgetVars == <<carouselVars, seasonVars, userVars, scopeVars>>

vars == <<homeVars, libraryVars, profile, storeVars, callerVars, detailVars,
          widgetVars>>

\* What fetchHomeData never touches, and what fetchLibraryData and the
\* Library's controls never touch.
otherPages == <<libraryVars, profile, storeVars, callerVars, detailVars, widgetVars>>
outsideLibrary == <<homeVars, profile, storeVars, callerVars, detailVars, widgetVars>>

InitLibrary ==
    /\ libraryPc = "mounted"
    /\ libraryLoading = TRUE
    /\ moviesData = <<>> /\ showsData = <<>>
    /\ libraryMoviesWithDetails = <<>>
    /\ movies = <<>> /\ shows = <<>>
    /\ mediaType = "all"
    /\ activeFilter = "watching"
    /\ searchQuery = <<>>

NoResponse == [status |-> "none", has_results |-> FALSE, results |-> <<>>]

\* The component as first rendered: the useState initial values.
InitPages ==
    /\ pc = "mounted"
    /\ loading = TRUE
    /\ error = "null"
    /\ allMovies = <<>> /\ allShows = <<>> /\ movieRecommendations = <<>>
    /\ upcomingMovies = <<>> /\ upcomingTV = <<>>
    /\ moviesWithDetails = <<>> /\ showsWithDetails = <<>>
    /\ similar = NoResponse
    /\ similarRequests = <<>>
    /\ watchingShows = <<>> /\ toWatchItems = <<>> /\ favouriteItems = <<>>
    /\ comingSoon = <<>> /\ comingSoonTV = <<>>
    /\ recommendedShows = <<>> /\ recommendedMovies = <<>>
    /\ heroItems = <<>>
    /\ InitLibrary

\* A new profile: no record; no request sent.
InitBackend ==
    /\ movieStore = <<>> /\ showStore = <<>> /\ episodeStore = <<>>
    /\ now = 0

InitCaller == requestLog = <<>> /\ apiResult = [threw |-> FALSE, status |-> 0]

\* MovieDetailPage before its fetch has settled; MovieDetail is not mounted
\* yet, its state is given the values of useState(... || default)
InitMovieDetail ==
    /\ moviePage = [loading |-> TRUE, error |-> FALSE, trackingData |-> <<>>]
    /\ movieDetail = [watched |-> FALSE, favourited |-> FALSE, rating |-> 0,
                      comment |-> "", saving |-> FALSE]
    /\ moviePending = <<>>

\* TVShowDetail when fetchShowData is at its first await
InitShowDetail ==
    /\ showPage = [loading |-> TRUE, awaiting |-> "show", error |-> FALSE,
                   trackingData |-> <<>>, episodes |-> <<>>]
    /\ showDetail = [favourited |-> FALSE, watchlisted |-> FALSE, rating |-> 0,
                     comment |-> "", saving |-> FALSE]
    /\ showTasks = <<>>

\* HeroCarousel as first rendered, with the heroItems Home starts with
InitCarousel ==
    /\ slides = 0 /\ idx = 0 /\ paused = FALSE /\ resumeTimer = FALSE
    /\ pointerOver = FALSE /\ lastMove = "none"

\* SeasonList as first rendered
InitSeasonList ==
    /\ expandedSeason = 0
    /\ seasonData = <<>> /\ seasonLoading = <<>>
    /\ seasonFetches = <<>> /\ seasonFetched = {}

\* UserProvider as first rendered, init awaiting refreshUsers
InitUserProvider ==
    /\ users = {} /\ currentUser = 0 /\ userLoading = TRUE
    /\ activeUserId = 0 /\ restored = FALSE

\* a browser that has never run the application, and a backend without a
\* profile
InitUsers ==
    /\ InitUserProvider
    /\ serverUsers = {} /\ storage = <<>> /\ chosen = 0 - 1

InitScope ==
    /\ scopeTask = <<>> /\ scopedSent = <<>>
    /\ profileData = [user \in {} |-> {}]

InitWidgets ==
    /\ InitCarousel /\ InitSeasonList /\ trackedEpisodes = <<>> /\ InitUsers
    /\ InitScope

InitDetail == InitMovieDetail /\ InitShowDetail

Init == InitPages /\ profile = <<>> /\ InitBackend /\ InitCaller /\ InitDetail /\ InitWidgets

\* ---------------------------------------------------------------- actions
\* useEffect on mount: fetchHomeData runs to its first await.
StartFetch ==
    /\ pc = "mounted"
    /\ loading' = TRUE
    /\ pc' = "awaitAll"
    /\ UNCHANGED <<error, locals, rows>>

\* promise.catch(() => fallback): the data of a settled request
OrElse(resp, fallback) == IF resp.ok THEN resp.data ELSE fallback

UpcomingOrElse(resp) ==
    IF resp.ok THEN resp
    ELSE [ok |-> TRUE, has_results |-> TRUE, results |-> <<>>]

\* The first Promise.all settles; the two upcoming lists are mapped and the
\* per-movie detail requests are issued.
FetchAllSettled(Inputs) ==
    /\ pc = "awaitAll"
    /\ \E in \in Inputs :
        /\ allMovies' = OrElse(in.movies, <<>>)
        /\ allShows' = OrElse(in.shows, <<>>)
        /\ movieRecommendations' = OrElse(in.recs, <<>>)
        /\ upcomingMovies' = UpcomingItems(UpcomingOrElse(in.upMovies), "movie")
        /\ upcomingTV' = UpcomingItems(UpcomingOrElse(in.upTV), "tv")
    /\ pc' = "awaitMovies"
    /\ UNCHANGED <<loading, error, moviesWithDetails, showsWithDetails,
                   similar, similarRequests, rows>>

\* what one detail request can come to
DetailOutcomes == {"fail", "nobackdrop", "backdrop"}

\* Promise.all over the movies: every getMovieDetail has settled.
EnrichMoviesSettled ==
    /\ pc = "awaitMovies"
    /\ \E outcomes \in [1..Len(allMovies) -> DetailOutcomes] :
        moviesWithDetails' = EnrichAll(allMovies, "movie", outcomes)
    /\ pc' = "awaitShows"
    /\ UNCHANGED <<loading, error, allMovies, allShows, movieRecommendations,
                   upcomingMovies, upcomingTV, showsWithDetails, similar,
                   similarRequests, rows>>

\* From "setWatchingShows(...)" to the end of the try block and the finally.
FinishHome(swd, tvRecs) ==
    LET validMovies == ValidMovies(moviesWithDetails)
        validShows == ValidShows(swd)
    IN  /\ watchingShows' = InProgressShows(validShows)
        /\ toWatchItems' = ToWatch(validMovies, validShows)
        /\ favouriteItems' = AllFavourites(validMovies, validShows)
        /\ comingSoon' = upcomingMovies
        /\ comingSoonTV' = upcomingTV
        /\ recommendedShows' = tvRecs
        /\ recommendedMovies' = movieRecommendations
        /\ heroItems' = BuildHero(LibShowsSorted(validShows),
                                  LibFilmsSorted(validMovies),
                                  UpcomingTVHero(upcomingTV, validShows),
                                  UpcomingFilmsHero(upcomingMovies, validMovies))
        /\ error' = error
        /\ loading' = FALSE
        /\ pc' = "done"

\* catch (err) { setError(err.message) } finally { setLoading(false) }
\* Every request of the try block has its own catch and the rest of the block
\* cannot throw on responses of the shape above, so no action below takes
\* this path; it is what a rejection that escaped its catch would do.
FailHome ==
    /\ error' = "message"
    /\ loading' = FALSE
    /\ pc' = "done"
    /\ UNCHANGED rows

\* Promise.all over the shows: every getTVShowDetail has settled.  With a
\* seed show the similar-shows request is issued; without one the function
\* runs to its end.
EnrichShowsSettled ==
    /\ pc = "awaitShows"
    /\ \E outcomes \in [1..Len(allShows) -> DetailOutcomes] :
        LET swd == EnrichAll(allShows, "tv", outcomes)
        IN  /\ showsWithDetails' = swd
            /\ IF SeedShow(ValidShows(swd)) # <<>>
               THEN /\ similarRequests' =
                            Append(similarRequests,
                                   ShowIdOf(SeedShow(ValidShows(swd))[1]))
                    /\ pc' = "awaitSimilar"
                    /\ UNCHANGED <<loading, error, rows>>
               ELSE /\ FinishHome(swd, <<>>)
                    /\ UNCHANGED similarRequests
    /\ UNCHANGED <<allMovies, allShows, movieRecommendations, upcomingMovies,
                   upcomingTV, moviesWithDetails, similar>>

\* fault variant of SimilarFailed: the rejection reaches the outer catch
SimilarFailedPropagates == FailHome

\* catch { tvRecs = [] } around the similar-shows lookup
SimilarFailed == FinishHome(showsWithDetails, <<>>)

\* getSimilarTVShows settles.
SimilarSettled(SimilarResponses) ==
    /\ pc = "awaitSimilar"
    /\ \E resp \in SimilarResponses :
        /\ similar' = resp
        /\ IF resp.status = "ok"
           THEN FinishHome(showsWithDetails,
                           TvRecs(resp, TrackedShowIds(ValidShows(showsWithDetails))))
           ELSE SimilarFailed
    /\ UNCHANGED <<allMovies, allShows, movieRecommendations, upcomingMovies,
                   upcomingTV, moviesWithDetails, showsWithDetails, similarRequests>>

\* ------------------------------------------------------- bounded responses
\* What the tracking backend and the catalogue may answer.  The tracked
\* titles of a list have the ids 1, 2, ... in list order (the code compares
\* ids only for equality); catalogue lists draw from tracked and fresh ids.
Ok(list) == [ok |-> TRUE, data |-> list]
Failed == [ok |-> FALSE, data |-> <<>>]
Tracked(Lists) == {Failed} \cup {Ok(l) : l \in Lists}

Results(list) == [ok |-> TRUE, has_results |-> TRUE, results |-> list]
NoResults == [ok |-> TRUE, has_results |-> FALSE, results |-> <<>>]
UpFailed == [ok |-> FALSE, has_results |-> FALSE, results |-> <<>>]
Upcoming(Lists) == {UpFailed, NoResults} \cup {Results(l) : l \in Lists}

ShowLists(n, F, W, R, P) ==
    UNION {{[i \in 1..k |-> ShowRec(i, c[i][1], c[i][2], c[i][3], c[i][4][1], c[i][4][2])] :
                c \in [1..k -> F \X W \X R \X P]} : k \in 0..n}

MovieLists(n, F, W, R, D) ==
    UNION {{[i \in 1..k |-> MovieRec(i, c[i][1], c[i][2], c[i][3], c[i][4])] :
                c \in [1..k -> F \X W \X R \X D]} : k \in 0..n}

CatLists(n, Ids, B) ==
    {[i \in 1..Len(q) |-> CatItem(q[i][1], q[i][2])] : q \in SeqsUpTo(n, Ids \X B)}

Fresh1 == MaxLib + 1
None == {Ok(<<>>)}
NoUpcoming == {Results(<<>>)}

\* slot filling: how many titles each pool holds, repeats in upcoming lists
TvSlotInputs ==
    [movies : Tracked(MovieLists(1, {FALSE}, {TRUE}, {0}, {FALSE})),
     shows : Tracked(ShowLists(MaxLib, {FALSE}, {TRUE}, {0}, {<<0, 0>>})),
     recs : None,
     upMovies : Upcoming(CatLists(1, {Fresh1}, {TRUE})),
     upTV : Upcoming(CatLists(MaxUpcoming, FreshIds, {TRUE}))]

FilmSlotInputs ==
    [movies : Tracked(MovieLists(MaxLib, {FALSE}, {TRUE}, {0}, {FALSE})),
     shows : Tracked(ShowLists(1, {FALSE}, {TRUE}, {0}, {<<0, 0>>})),
     recs : None,
     upMovies : Upcoming(CatLists(MaxUpcoming, FreshIds, {TRUE})),
     upTV : Upcoming(CatLists(1, {Fresh1}, {TRUE}))]

\* pool membership: watchlist flag, progress, backdrops, tracked upcoming ids
TvPoolInputs ==
    [movies : None,
     shows : Tracked(ShowLists(MaxPool, {FALSE}, BOOLEAN, {0}, {<<0, 2>>, <<1, 2>>})),
     recs : None,
     upMovies : NoUpcoming,
     upTV : Upcoming(CatLists(MaxPoolUpcoming, (1..MaxPool) \cup {Fresh1}, BOOLEAN))]

FilmPoolInputs ==
    [movies : Tracked(MovieLists(MaxPool, {FALSE}, BOOLEAN, {0}, BOOLEAN)),
     shows : None,
     recs : None,
     upMovies : Upcoming(CatLists(MaxPoolUpcoming, (1..MaxPool) \cup {Fresh1}, BOOLEAN)),
     upTV : NoUpcoming]

\* pool order: favourite flag and rating
TvOrderInputs ==
    [movies : None,
     shows : Tracked(ShowLists(MaxLib, BOOLEAN, {TRUE}, Ratings, {<<0, 0>>})),
     recs : None, upMovies : NoUpcoming, upTV : NoUpcoming]

FilmOrderInputs ==
    [movies : Tracked(MovieLists(MaxLib, BOOLEAN, {TRUE}, Ratings, {FALSE})),
     shows : None,
     recs : None, upMovies : NoUpcoming, upTV : NoUpcoming]

\* the rows: one title of each kind with every flag and progress
RowInputs ==
    [movies : Tracked(MovieLists(1, BOOLEAN, BOOLEAN, {0}, BOOLEAN)),
     shows : Tracked(ShowLists(1, BOOLEAN, BOOLEAN, {0}, Progresses)),
     recs : Tracked({<<>>, <<CatItem(Fresh1, TRUE)>>}),
     upMovies : NoUpcoming, upTV : NoUpcoming]

HeroInputs ==
    TvSlotInputs \cup FilmSlotInputs \cup TvPoolInputs \cup FilmPoolInputs
        \cup TvOrderInputs \cup FilmOrderInputs \cup RowInputs

SimilarOk(list) == [status |-> "ok", has_results |-> TRUE, results |-> list]
SimilarNoResults == [status |-> "ok", has_results |-> FALSE, results |-> <<>>]
SimilarFail == [status |-> "fail", has_results |-> FALSE, results |-> <<>>]

HeroSimilar ==
    {SimilarFail, SimilarNoResults,
     SimilarOk(<<CatItem(1, TRUE), CatItem(Fresh1, TRUE)>>)}

\* recommendations: the ratings and order of the tracked shows; a similar
\* list is a run of consecutive ids, upwards or downwards, that starts on a
\* tracked or on a fresh id and is long enough to pass the cap, with or
\* without the tracked ids (downwards) in front of it
RecInputs ==
    [movies : None,
     shows : Tracked(ShowLists(MaxLib, {FALSE}, {FALSE}, Ratings, {<<0, 0>>})),
     recs : None, upMovies : NoUpcoming, upTV : NoUpcoming]

Run(start, n, up) ==
    [i \in 1..n |-> CatItem(IF up THEN start + i - 1 ELSE start + n - i, TRUE)]

RecSimilar ==
    {SimilarFail, SimilarNoResults}
        \cup {SimilarOk(lead \o Run(st, n, up)) :
                lead \in {<<>>, Run(1, MaxLib, FALSE)},
                st \in {1, Fresh1}, n \in 0..MaxSimilar, up \in BOOLEAN}

\* ---------------------------------------------------------- specifications
NextHero ==
    \/ StartFetch /\ UNCHANGED otherPages
    \/ FetchAllSettled(HeroInputs) /\ UNCHANGED otherPages
    \/ EnrichMoviesSettled /\ UNCHANGED otherPages
    \/ EnrichShowsSettled /\ UNCHANGED otherPages
    \/ SimilarSettled(HeroSimilar) /\ UNCHANGED otherPages

SpecHero == Init /\ [][NextHero]_vars

NextRecs ==
    \/ StartFetch /\ UNCHANGED otherPages
    \/ FetchAllSettled(RecInputs) /\ UNCHANGED otherPages
    \/ EnrichMoviesSettled /\ UNCHANGED otherPages
    \/ EnrichShowsSettled /\ UNCHANGED otherPages
    \/ SimilarSettled(RecSimilar) /\ UNCHANGED otherPages

SpecRecs == Init /\ [][NextRecs]_vars

\* ================================================================= claims
\* The four hero pools and the tracked lists of the load, read off the state.
NowValidShows == ValidShows(showsWithDetails)
NowValidMovies == ValidMovies(moviesWithDetails)
PoolLibShows == LibShowsSorted(NowValidShows)
PoolLibFilms == LibFilmsSorted(NowValidMovies)
PoolUpTV == UpcomingTVHero(upcomingTV, NowValidShows)
PoolUpFilms == UpcomingFilmsHero(upcomingMovies, NowValidMovies)

HeroPairs == [i \in 1..Len(heroItems) |-> <<heroItems[i].media_type, heroItems[i].id>>]

AllPoolsEmpty ==
    PoolLibShows = <<>> /\ PoolLibFilms = <<>> /\ PoolUpTV = <<>> /\ PoolUpFilms = <<>>

HasRepeat(ids) == \E i, j \in 1..Len(ids) : i < j /\ ids[i] = ids[j]

\* the ids of a pool, in pool order, and the kind of its titles
PoolIds(name) ==
    CASE name = "library_tv" -> [i \in 1..Len(PoolLibShows) |-> PoolLibShows[i].tmdb_show_id]
      [] name = "library_film" -> [i \in 1..Len(PoolLibFilms) |-> PoolLibFilms[i].tmdb_movie_id]
      [] name = "coming_soon_tv" -> [i \in 1..Len(PoolUpTV) |-> PoolUpTV[i].id]
      [] name = "coming_soon_film" -> [i \in 1..Len(PoolUpFilms) |-> PoolUpFilms[i].id]

PoolKind(name) == IF name \in {"library_tv", "coming_soon_tv"} THEN "tv" ELSE "movie"

\* the slot table of the specification: <<primary, fallback>> for slots 1..5
SlotPlan ==
    << <<"library_tv", "coming_soon_tv">>,
       <<"library_film", "coming_soon_film">>,
       <<"library_tv", "coming_soon_tv">>,
       <<"coming_soon_tv", "library_tv">>,
       <<"coming_soon_film", "library_film">> >>

\* the first id of a pool that no entry of `placed` (a sequence of
\* <<kind, id, pool>> triples) already holds; <<>> when there is none
FirstUnused(name, placed) ==
    LET ids == PoolIds(name)
        taken == {placed[i][2] : i \in {n \in 1..Len(placed) : placed[n][1] = PoolKind(name)}}
        free == {i \in 1..Len(ids) : ids[i] \notin taken}
    IN  IF free = {} THEN <<>>
        ELSE <<ids[CHOOSE i \in free : \A j \in free : i <= j]>>

RECURSIVE PlannedFrom(_, _)
PlannedFrom(k, placed) ==
    IF k > Len(SlotPlan) THEN placed
    ELSE LET prim == SlotPlan[k][1]
             fall == SlotPlan[k][2]
             p == FirstUnused(prim, placed)
             f == FirstUnused(fall, placed)
         IN  PlannedFrom(k + 1,
                 IF p # <<>> THEN Append(placed, <<PoolKind(prim), p[1], prim>>)
                 ELSE IF f # <<>> THEN Append(placed, <<PoolKind(fall), f[1], fall>>)
                 ELSE placed)

HeroTriples ==
    [i \in 1..Len(heroItems) |->
        <<heroItems[i].media_type, heroItems[i].id, heroItems[i].hero_type>>]

\* C1: the hero output never holds two entries with the same (media kind,
\* id) pair, whatever the four pools hold (repeated ids included), and it is
\* empty when all four pools are empty.
C1_HeroNoDuplicate ==
    /\ ~HasRepeat(HeroPairs)
    /\ (pc = "done" /\ AllPoolsEmpty) => heroItems = <<>>

\* C1's case: an upcoming pool repeats an id, a show and a film share an id,
\* and the output holds several entries.
C1_Witness ==
    /\ pc = "done"
    /\ HasRepeat(PoolIds("coming_soon_tv"))
    /\ Len(heroItems) >= 3
    /\ \E i, j \in 1..Len(heroItems) :
          /\ heroItems[i].id = heroItems[j].id
          /\ heroItems[i].media_type # heroItems[j].media_type

\* C2: the slots are filled in order 1..5 from the primary pool, else from
\* the fallback pool, of the slot table; each takes the first unused item of
\* its pool in pool order and is tagged with the pool it came from.
C2_SlotOrderAndFallback ==
    pc = "done" => HeroTriples = PlannedFrom(1, <<>>)

\* C2's case: no upcoming title; slot 3 took the second library show and
\* slot 4 fell back to the third.
C2_Witness ==
    /\ pc = "done"
    /\ Len(PoolLibShows) >= 3
    /\ PoolUpTV = <<>> /\ PoolUpFilms = <<>>
    /\ Len(heroItems) = 3
    /\ heroItems[3].hero_type = "library_tv"

\* strictly increasing maps from the output's positions to the slots
SlotMaps ==
    {m \in [1..Len(heroItems) -> 1..Len(SlotPlan)] :
        \A i, j \in 1..Len(heroItems) : i < j => m[i] < m[j]}

\* C3: at most 5 entries; the entries come from the slots in slot order, a
\* slot contributing none exactly when neither its primary nor its fallback
\* pool holds an item unused when the slot is filled; nothing pads the gaps.
C3_GapsCollapsed ==
    pc = "done" =>
        /\ Len(heroItems) <= 5
        /\ \E m \in SlotMaps :
            /\ \A i \in 1..Len(heroItems) :
                  /\ heroItems[i].hero_type \in Range(SlotPlan[m[i]])
                  /\ heroItems[i].id \in Range(PoolIds(heroItems[i].hero_type))
            /\ \A k \in 1..Len(SlotPlan) :
                  LET before == SubSeq(HeroTriples, 1,
                                       Cardinality({i \in 1..Len(heroItems) : m[i] < k}))
                  IN  (k \notin Range(m)) <=>
                          /\ FirstUnused(SlotPlan[k][1], before) = <<>>
                          /\ FirstUnused(SlotPlan[k][2], before) = <<>>

\* C3's case: slots 1, 3 and 4 are empty and slots 2 and 5 are filled.
C3_Witness ==
    /\ pc = "done"
    /\ PoolLibShows = <<>> /\ PoolUpTV = <<>>
    /\ Len(PoolLibFilms) >= 1 /\ Len(PoolUpFilms) >= 1
    /\ Len(heroItems) = 2
    /\ heroItems[1].hero_type = "library_film"
    /\ heroItems[2].hero_type = "coming_soon_film"

\* favourited titles first, then rating descending
FavThenRating(pool) ==
    \A i, j \in 1..Len(pool) :
        i < j => /\ pool[j].favourited => pool[i].favourited
                 /\ pool[i].favourited = pool[j].favourited
                        => pool[i].rating >= pool[j].rating

\* every element of `set` once, and nothing else
HoldsExactly(pool, set) == Range(pool) = set /\ Len(pool) = Cardinality(set)

TrackedShowIdSet == {allShows[i].tmdb_show_id : i \in 1..Len(allShows)}
TrackedMovieIdSet == {allMovies[i].tmdb_movie_id : i \in 1..Len(allMovies)}

\* C4: a library hero pool holds exactly the tracked titles of its kind that
\* have a backdrop and are watchlisted or have progress (watched for a film,
\* watched_episodes > 0 for a show), favourited titles before the others and
\* by rating descending within each group.
C4_LibraryPool ==
    /\ HoldsExactly(PoolLibShows,
           {s \in Range(showsWithDetails) :
               s.backdrop_path /\ (s.watchlisted \/ s.watched_episodes > 0)})
    /\ HoldsExactly(PoolLibFilms,
           {m \in Range(moviesWithDetails) :
               m.backdrop_path /\ (m.watchlisted \/ m.watched)})
    /\ FavThenRating(PoolLibShows)
    /\ FavThenRating(PoolLibFilms)
    /\ pc \in {"awaitSimilar", "done"} =>
          /\ {s.tmdb_show_id : s \in Range(showsWithDetails)} = TrackedShowIdSet
          /\ {m.tmdb_movie_id : m \in Range(moviesWithDetails)} = TrackedMovieIdSet

\* C4's case: three tracked shows, one left out of the pool, the two others a
\* favourite and a non-favourite that the sort had to swap.
C4_Witness ==
    /\ pc = "done"
    /\ Len(showsWithDetails) = 3
    /\ Len(PoolLibShows) = 2
    /\ PoolLibShows[1].favourited /\ ~PoolLibShows[2].favourited
    /\ PoolLibShows[1].rating < PoolLibShows[2].rating
    /\ PoolLibShows[1].tmdb_show_id > PoolLibShows[2].tmdb_show_id
    /\ heroItems[1].id = PoolLibShows[1].tmdb_show_id

WithBackdrop(list) == LET Test(x) == x.backdrop_path IN SelectSeq(list, Test)

\* C5 as stated: an upcoming hero pool holds exactly the upcoming items with
\* a backdrop whose id is not in the corresponding LIBRARY HERO POOL, so an
\* item of a tracked title that is outside that pool stays in.
C5_AsStated ==
    pc = "done" =>
        /\ LET Test(s) == s.id \notin Range(PoolIds("library_tv"))
           IN  PoolUpTV = SelectSeq(WithBackdrop(upcomingTV), Test)
        /\ LET Test(m) == m.id \notin Range(PoolIds("library_film"))
           IN  PoolUpFilms = SelectSeq(WithBackdrop(upcomingMovies), Test)

\* C5 amended: an upcoming hero pool holds exactly the upcoming items with a
\* backdrop whose id is not the id of ANY tracked title of its kind that the
\* load obtained; an upcoming item of a tracked title is left out even when
\* that title is not in the library hero pool, and never fills a slot.
C5_UpcomingPool ==
    pc = "done" =>
        /\ LET Test(s) == s.id \notin TrackedShowIdSet
           IN  PoolUpTV = SelectSeq(WithBackdrop(upcomingTV), Test)
        /\ LET Test(m) == m.id \notin TrackedMovieIdSet
           IN  PoolUpFilms = SelectSeq(WithBackdrop(upcomingMovies), Test)
        /\ \A i \in 1..Len(heroItems) :
              /\ heroItems[i].hero_type = "coming_soon_tv"
                    => heroItems[i].id \notin TrackedShowIdSet
              /\ heroItems[i].hero_type = "coming_soon_film"
                    => heroItems[i].id \notin TrackedMovieIdSet

\* C5's case: an upcoming show with a backdrop is a tracked show that is not
\* in the library hero pool.
C5_Witness ==
    /\ pc = "done"
    /\ \E i \in 1..Len(upcomingTV) :
          /\ upcomingTV[i].backdrop_path
          /\ upcomingTV[i].id \in TrackedShowIdSet
          /\ upcomingTV[i].id \notin Range(PoolIds("library_tv"))
          /\ upcomingTV[i].id \notin Range(PoolIds("coming_soon_tv"))

NoBackdrop(list) == \A i \in 1..Len(list) : ~list[i].backdrop_path

NoBackdropAnywhere ==
    /\ NoBackdrop(NowValidShows) /\ NoBackdrop(NowValidMovies)
    /\ NoBackdrop(upcomingTV) /\ NoBackdrop(upcomingMovies)

\* C6: when no candidate of any of the four pools has a backdrop (detail
\* lookups that failed and upcoming lookups that failed included), the load
\* ends with an empty hero sequence, not loading and not in the error state.
C6_NoBackdropNoHero ==
    (pc = "done" /\ NoBackdropAnywhere) =>
        heroItems = <<>> /\ error = "null" /\ loading = FALSE

\* C6's case: tracked titles that would be in the library pools and an
\* upcoming show exist, none with a backdrop.
C6_Witness ==
    /\ pc = "done"
    /\ NoBackdropAnywhere
    /\ \E i \in 1..Len(showsWithDetails) : showsWithDetails[i].watchlisted
    /\ upcomingTV # <<>>
    /\ heroItems = <<>> /\ error = "null"

\* C7: no recommended show has the id of a tracked show, whatever the seed,
\* the tracked shows' fields and the similar-shows list (lists that overlap
\* the tracked set included).
C7_RecsExcludeTracked ==
    \A i \in 1..Len(recommendedShows) : recommendedShows[i].id \notin TrackedShowIdSet

\* C7's case: the similar list holds tracked ids, one of an unrated show,
\* and recommendations were produced.
C7_Witness ==
    /\ pc = "done"
    /\ recommendedShows # <<>>
    /\ \E i \in 1..Len(similar.results), k \in 1..Len(allShows) :
          /\ similar.results[i].id = allShows[k].tmdb_show_id
          /\ allShows[k].rating = 0
    /\ \E k \in 1..Len(allShows) : allShows[k].rating > 0

\* C8: the seed is the tracked show with the highest rating, the first such
\* show in list order; an unrated show only when no show is rated; with no
\* tracked show there is no lookup and no recommendation.
C8_Seed ==
    pc \in {"awaitSimilar", "done"} =>
        IF allShows = <<>>
        THEN similarRequests = <<>> /\ similar = NoResponse /\ recommendedShows = <<>>
        ELSE /\ Len(similarRequests) = 1
             /\ \E k \in 1..Len(allShows) :
                   /\ allShows[k].tmdb_show_id = similarRequests[1]
                   /\ \A j \in 1..Len(allShows) :
                         /\ allShows[j].rating <= allShows[k].rating
                         /\ j < k => allShows[j].rating < allShows[k].rating
                   /\ allShows[k].rating = 0 =>
                         \A j \in 1..Len(allShows) : allShows[j].rating = 0

\* C8's case: three tracked shows, the highest rating shared by the second
\* and the third; the second is the seed.
C8_Witness ==
    /\ pc = "done"
    /\ Len(allShows) = 3
    /\ allShows[1].rating < allShows[2].rating
    /\ allShows[2].rating = allShows[3].rating
    /\ similarRequests = <<allShows[2].tmdb_show_id>>

\* every favourited title of `list` is in `row`
HoldsFavourites(row, list) ==
    \A i \in 1..Len(list) : list[i].favourited => list[i] \in Range(row)

\* every watchlisted title of `list` is in `row`
HoldsWatchlisted(row, list) ==
    \A i \in 1..Len(list) : list[i].watchlisted => list[i] \in Range(row)

\* C9: when the similar-shows lookup fails the recommendations are empty,
\* the rows and the hero slots are built all the same, the page is not in
\* the error state, and the lookup was made once.
C9_SimilarFailsSoft ==
    (pc = "done" /\ similar.status = "fail") =>
        /\ recommendedShows = <<>>
        /\ error = "null" /\ loading = FALSE
        /\ Len(similarRequests) = 1
        /\ comingSoon = upcomingMovies /\ comingSoonTV = upcomingTV
        /\ recommendedMovies = movieRecommendations
        /\ HoldsFavourites(favouriteItems, NowValidShows)
        /\ HoldsFavourites(favouriteItems, NowValidMovies)
        /\ HoldsWatchlisted(toWatchItems, NowValidShows)
        /\ HoldsWatchlisted(toWatchItems, NowValidMovies)
        /\ heroItems = <<>> => AllPoolsEmpty

\* C9's case: the lookup failed and the load still filled the favourites
\* row, the recommended films and the hero slots.
C9_Witness ==
    /\ pc = "done"
    /\ similar.status = "fail"
    /\ favouriteItems # <<>>
    /\ recommendedMovies # <<>>
    /\ heroItems # <<>>
    /\ recommendedShows = <<>> /\ error = "null"

RecIds == [i \in 1..Len(recommendedShows) |-> recommendedShows[i].id]

\* the ids of the similar-shows results that belong to no tracked show
KeptIds ==
    LET Test(s) == s.id \notin TrackedShowIdSet
        kept == SelectSeq(similar.results, Test)
    IN  [i \in 1..Len(kept) |-> kept[i].id]

\* C10: at most 20 recommendations: the first 20 (or fewer) similar-shows
\* results left after the tracked ids are removed, in the catalogue's order.
C10_RecsCapAndOrder ==
    /\ Len(recommendedShows) <= 20
    /\ (pc = "done" /\ similar.status = "ok") =>
          RecIds = SubSeq(KeptIds, 1, IF Len(KeptIds) < 20 THEN Len(KeptIds) ELSE 20)

\* C10's case: a list in descending id order with more than 20 untracked
\* results and a tracked one among its first 20.
C10_Witness ==
    /\ pc = "done"
    /\ Len(recommendedShows) = 20
    /\ Len(KeptIds) > 20
    /\ similar.results[1].id > similar.results[2].id
    /\ \E i \in 1..20 : similar.results[i].id \in TrackedShowIdSet

\* ============================================================ Library page
\* Strings the page searches in are sequences of characters.
LowerChar(c) == IF c = "A" THEN "a" ELSE IF c = "B" THEN "b" ELSE c

\* String.prototype.toLowerCase
ToLowerCase(s) == [i \in 1..Len(s) |-> LowerChar(s[i])]

\* String.prototype.trim
RECURSIVE Trim(_)
Trim(s) ==
    IF s = <<>> THEN s
    ELSE IF Head(s) = " " THEN Trim(Tail(s))
    ELSE IF s[Len(s)] = " " THEN Trim(SubSeq(s, 1, Len(s) - 1))
    ELSE s

\* String.prototype.includes
Includes(s, q) ==
    \E i \in 1..(Len(s) - Len(q) + 1) : SubSeq(s, i, i + Len(q) - 1) = q

\* { ...movie, ...tmdbData, media_type } and, when the detail request fails,
\* { ...movie, media_type }.  Of the catalogue's fields the page reads the
\* title (title of a film, name of a show: item.title || item.name || '');
\* `detail` is that title, <<>> when the request failed.
LibraryEnrich(rec, kind, detail) ==
    [tmdb_show_id |-> rec.tmdb_show_id, tmdb_movie_id |-> rec.tmdb_movie_id,
     watched |-> rec.watched, favourited |-> rec.favourited,
     watchlisted |-> rec.watchlisted, rating |-> rec.rating,
     watched_episodes |-> rec.watched_episodes,
     total_episodes |-> rec.total_episodes,
     media_type |-> kind,
     title |-> detail]

LibraryEnrichAll(list, kind, details) ==
    [i \in 1..Len(list) |-> LibraryEnrich(list[i], kind, details[i])]

\* the predicates of getFilteredItems, one per status filter
\* fault variant of WatchedTest: a show with no episode watched passes
WatchedTestAnyCount(item) ==
    IF item.media_type = "movie" THEN item.watched
    ELSE item.watched_episodes = item.total_episodes

WatchedTest(item) ==
    IF item.media_type = "movie" THEN item.watched
    ELSE item.watched_episodes > 0 /\ item.watched_episodes = item.total_episodes

UnwatchedTest(item) ==
    IF item.media_type = "movie" THEN ~item.watched
    ELSE item.watched_episodes = 0

FavouritedTest(item) == item.favourited

\* fault variant of WatchingTest: <= for <
WatchingTestInclusive(item) ==
    /\ item.media_type = "tv"
    /\ item.watched_episodes > 0
    /\ (item.total_episodes = 0 \/ item.watched_episodes <= item.total_episodes)

\* item.watched_episodes < (item.total_episodes || Infinity)
WatchingTest(item) ==
    /\ item.media_type = "tv"
    /\ item.watched_episodes > 0
    /\ (item.total_episodes = 0 \/ item.watched_episodes < item.total_episodes)

ToWatchTest(item) ==
    IF item.media_type = "movie"
    THEN item.favourited /\ ~item.watched
    ELSE item.favourited /\ ~(/\ item.watched_episodes >= item.total_episodes
                              /\ item.total_episodes > 0)

\* the secondary filter: (item.title || item.name || '').toLowerCase().includes(q)
SearchTest(item, q) == Includes(ToLowerCase(item.title), q)

StatusFilter(items, filter) ==
    IF filter = "watched" THEN SelectSeq(items, WatchedTest)
    ELSE IF filter = "unwatched" THEN SelectSeq(items, UnwatchedTest)
    ELSE IF filter = "favourited" THEN SelectSeq(items, FavouritedTest)
    ELSE IF filter = "watching" THEN SelectSeq(items, WatchingTest)
    ELSE IF filter = "to-watch" THEN SelectSeq(items, ToWatchTest)
    ELSE items

\* let items = mediaType === 'films' ? movies : mediaType === 'tv' ? shows : [...]
MediaItems(ms, ss, mt) ==
    IF mt = "films" THEN ms ELSE IF mt = "tv" THEN ss ELSE ms \o ss

GetFilteredItems(ms, ss, mt, filter, query) ==
    LET items == StatusFilter(MediaItems(ms, ss, mt), filter)
        Matches(item) == SearchTest(item, ToLowerCase(query))
    IN  IF Trim(query) # <<>> THEN SelectSeq(items, Matches) ELSE items

\* what the page hands to LibraryGrid
filteredItems == GetFilteredItems(movies, shows, mediaType, activeFilter, searchQuery)

\* FilterTabs: the tabs shown for a media type
FilterTabs(mt) ==
    LET filters == <<"watching", "to-watch", "watched", "favourited", "all">>
        Shown(f) == ~(mt = "films" /\ f = "watching")
    IN  SelectSeq(filters, Shown)

\* ------------------------------------------------- fetchLibraryData: actions
libraryLocals == <<moviesData, showsData, libraryMoviesWithDetails>>
libraryControls == <<mediaType, activeFilter, searchQuery>>

\* useEffect on mount: fetchLibraryData runs to its first await.
LibraryStart ==
    /\ libraryPc = "mounted"
    /\ libraryLoading' = TRUE
    /\ libraryPc' = "awaitAll"
    /\ UNCHANGED <<libraryLocals, movies, shows, libraryControls>>

\* The Promise.all of the two getAll requests settles (each with its catch);
\* the per-movie detail requests are issued.
LibraryFetchSettled(Inputs) ==
    /\ libraryPc = "awaitAll"
    /\ \E in \in Inputs :
        /\ moviesData' = OrElse(in.movies, <<>>)
        /\ showsData' = OrElse(in.shows, <<>>)
    /\ libraryPc' = "awaitMovies"
    /\ UNCHANGED <<libraryLoading, libraryMoviesWithDetails, movies, shows,
                   libraryControls>>

\* what one detail request gives the page: no title (the request failed) or
\* the title of the film, the name of the show
FilmTitle == <<"A", "b">>
ShowName == <<"B">>
FilmDetails == {<<>>, FilmTitle}
ShowDetails == {<<>>, ShowName}

\* Promise.all over the movies settles; no request rejects past its catch.
LibraryMoviesSettled ==
    /\ libraryPc = "awaitMovies"
    /\ \E details \in [1..Len(moviesData) -> FilmDetails] :
        libraryMoviesWithDetails' = LibraryEnrichAll(moviesData, "movie", details)
    /\ libraryPc' = "awaitShows"
    /\ UNCHANGED <<libraryLoading, moviesData, showsData, movies, shows,
                   libraryControls>>

\* Promise.all over the shows settles: setMovies, setShows, and the finally.
LibraryShowsSettled ==
    /\ libraryPc = "awaitShows"
    /\ \E details \in [1..Len(showsData) -> ShowDetails] :
        shows' = LibraryEnrichAll(showsData, "tv", details)
    /\ movies' = libraryMoviesWithDetails
    /\ libraryLoading' = FALSE
    /\ libraryPc' = "done"
    /\ UNCHANGED <<libraryLocals, libraryControls>>

\* The controls are rendered once loading is false.
\* onClick of a media type: setMediaType(id), and a films view leaves the
\* watching tab.
SetMediaType(id) ==
    /\ ~libraryLoading
    /\ mediaType' = id
    /\ activeFilter' = IF id = "films" /\ activeFilter = "watching"
                       THEN "to-watch" ELSE activeFilter
    /\ UNCHANGED <<libraryPc, libraryLoading, libraryLocals, movies, shows,
                   searchQuery>>

\* onClick of a tab of FilterTabs: onFilterChange(id)
OnFilterChange(id) ==
    /\ ~libraryLoading
    /\ id \in Range(FilterTabs(mediaType))
    /\ activeFilter' = id
    /\ UNCHANGED <<libraryPc, libraryLoading, libraryLocals, movies, shows,
                   mediaType, searchQuery>>

\* onChange of the search box
SetSearchQuery(q) ==
    /\ ~libraryLoading
    /\ searchQuery' = q
    /\ UNCHANGED <<libraryPc, libraryLoading, libraryLocals, movies, shows,
                   mediaType, activeFilter>>

MediaTypes == {"all", "films", "tv"}
Queries == {<<>>, <<" ">>, <<"a">>}

\* ----------------------------------------- the Library page: bounded inputs
\* progress of a show: Progresses, and more episodes watched than the
\* catalogue now counts
LibraryProgresses == Progresses \cup {<<3, 2>>}

\* films: every combination of the three flags
LibraryFilmInputs ==
    [movies : Tracked(MovieLists(MaxShelf, BOOLEAN, BOOLEAN, {0}, BOOLEAN)),
     shows : Tracked(ShowLists(1, {TRUE}, {TRUE}, {0}, {<<1, 2>>}))]

\* shows: the two flags, against no progress and complete
LibraryShowFlagInputs ==
    [movies : None,
     shows : Tracked(ShowLists(MaxShelf, BOOLEAN, BOOLEAN, {0}, {<<0, 2>>, <<2, 2>>}))]

\* shows: every progress, favourited or not
LibraryProgressInputs ==
    [movies : Tracked(MovieLists(1, {TRUE}, {TRUE}, {0}, {TRUE})),
     shows : Tracked(ShowLists(MaxShelf, BOOLEAN, {FALSE}, {0}, LibraryProgresses))]

LibraryInputs == LibraryFilmInputs \cup LibraryShowFlagInputs \cup LibraryProgressInputs

NextLibrary ==
    \/ LibraryStart /\ UNCHANGED outsideLibrary
    \/ LibraryFetchSettled(LibraryInputs) /\ UNCHANGED outsideLibrary
    \/ LibraryMoviesSettled /\ UNCHANGED outsideLibrary
    \/ LibraryShowsSettled /\ UNCHANGED outsideLibrary
    \/ (\E id \in MediaTypes : SetMediaType(id)) /\ UNCHANGED outsideLibrary
    \/ (\E id \in Range(FilterTabs("all")) : OnFilterChange(id)) /\ UNCHANGED outsideLibrary
    \/ (\E q \in Queries : SetSearchQuery(q)) /\ UNCHANGED outsideLibrary

SpecLibrary == Init /\ [][NextLibrary]_vars

\* ------------------------------------------------- claims: the Library page
\* the items of the selected media type, before any filter
ShelfItems == MediaItems(movies, shows, mediaType)

\* the page shows a status filter's result: loaded, no search text
StatusOnly(filter) ==
    libraryPc = "done" /\ activeFilter = filter /\ Trim(searchQuery) = <<>>

\* C11: the 'to-watch' filter returns exactly the tracked films and shows
\* with watchlisted = true, whatever their favourited flag, watched state or
\* episode progress.
C11_ToWatchIsWatchlisted ==
    StatusOnly("to-watch") =>
        Range(filteredItems) = {x \in Range(ShelfItems) : x.watchlisted}

\* C12 as stated: the 'watching' filter returns exactly the shows with
\* 0 < watched_episodes < total_episodes, also when total_episodes is 0 or
\* unknown, and never a film.
C12_AsStated ==
    StatusOnly("watching") =>
        Range(filteredItems) =
            {x \in Range(ShelfItems) :
                /\ x.media_type = "tv"
                /\ 0 < x.watched_episodes
                /\ x.watched_episodes < x.total_episodes}

\* C12 amended: the 'watching' filter returns exactly the shows with
\* watched_episodes > 0 and, when total_episodes is above 0,
\* watched_episodes < total_episodes; a show whose total_episodes is 0 or
\* unknown is returned whenever watched_episodes > 0; never a film.
C12_Watching ==
    StatusOnly("watching") =>
        /\ \A i \in 1..Len(filteredItems) : filteredItems[i].media_type = "tv"
        /\ Range(filteredItems) =
              {x \in Range(shows) :
                  /\ mediaType # "films"
                  /\ x.watched_episodes > 0
                  /\ x.total_episodes > 0 => x.watched_episodes < x.total_episodes}

\* C12's case: films and shows loaded, a show with an episode watched and
\* no known total is returned, a complete show is not.
C12_Witness ==
    /\ StatusOnly("watching")
    /\ mediaType = "all"
    /\ movies # <<>>
    /\ \E i \in 1..Len(shows) :
          /\ shows[i].total_episodes = 0 /\ shows[i].watched_episodes = 1
          /\ shows[i] \in Range(filteredItems)
    /\ \E i \in 1..Len(shows) :
          /\ shows[i].total_episodes = 2 /\ shows[i].watched_episodes = 2
          /\ shows[i] \notin Range(filteredItems)

\* ------------------------------------- the home page and the Library page
\* of one profile: both pages load the same tracked titles
\* Show A: rating 5, 10 of 10 episodes watched.  Show B: rating 3, 2 of 12.
ShowA(i) == ShowRec(i, FALSE, FALSE, 5, 10, 10)
ShowB(i) == ShowRec(i, FALSE, FALSE, 3, 2, 12)

ScenarioProfiles ==
    {[movies |-> <<>>, shows |-> <<ShowA(1), ShowB(2)>>],
     [movies |-> <<>>, shows |-> <<ShowB(1), ShowA(2)>>]}

ProfileProgresses == LibraryProgresses \cup {<<10, 10>>, <<2, 12>>}

\* two shows of any progress
ProgressProfiles ==
    {[movies |-> <<>>,
      shows |-> <<ShowRec(1, FALSE, FALSE, 5, p[1], p[2]),
                  ShowRec(2, FALSE, FALSE, 3, q[1], q[2])>>] :
        p \in ProfileProgresses, q \in ProfileProgresses}

Profiles == ScenarioProfiles \cup ProgressProfiles

\* the answers of a load of the profile: each getAll fails or gives the
\* profile's list; no recommendation, nothing upcoming
ProfileHomeInputs ==
    [movies : Tracked({profile.movies}), shows : Tracked({profile.shows}),
     recs : None, upMovies : NoUpcoming, upTV : NoUpcoming]

ProfileLibraryInputs ==
    [movies : Tracked({profile.movies}), shows : Tracked({profile.shows})]

InitProfile ==
    /\ InitPages /\ profile \in Profiles /\ InitBackend /\ InitCaller
    /\ InitDetail /\ InitWidgets

NextProfile ==
    \/ StartFetch /\ UNCHANGED otherPages
    \/ FetchAllSettled(ProfileHomeInputs) /\ UNCHANGED otherPages
    \/ EnrichMoviesSettled /\ UNCHANGED otherPages
    \/ EnrichShowsSettled /\ UNCHANGED otherPages
    \/ SimilarSettled(HeroSimilar) /\ UNCHANGED otherPages
    \/ LibraryStart /\ UNCHANGED outsideLibrary
    \/ LibraryFetchSettled(ProfileLibraryInputs) /\ UNCHANGED outsideLibrary
    \/ LibraryMoviesSettled /\ UNCHANGED outsideLibrary
    \/ LibraryShowsSettled /\ UNCHANGED outsideLibrary
    \/ (\E id \in MediaTypes : SetMediaType(id)) /\ UNCHANGED outsideLibrary
    \/ (\E id \in Range(FilterTabs("all")) : OnFilterChange(id)) /\ UNCHANGED outsideLibrary
    \/ (\E q \in Queries : SetSearchQuery(q)) /\ UNCHANGED outsideLibrary

SpecProfile == InitProfile /\ [][NextProfile]_vars

\* ids of the shows of a list
ShowIds(list) == {list[i].tmdb_show_id : i \in 1..Len(list)}

\* the id of the profile's show with the given rating
ProfileShowRated(r) ==
    (CHOOSE x \in Range(profile.shows) : x.rating = r).tmdb_show_id

\* C13: for the profile of Show A (rating 5, 10/10) and Show B (rating 3,
\* 2/12), in either order, the recommendation seed is Show A, 'watching'
\* returns only Show B and 'watched' only Show A; in general 'watched'
\* returns a show iff total_episodes > 0 and watched_episodes =
\* total_episodes, and no show is returned by both filters.
C13_ScenarioAndWatched ==
    /\ (/\ profile \in ScenarioProfiles
        /\ pc \in {"awaitSimilar", "done"}
        /\ allShows = profile.shows)
         => similarRequests = <<ProfileShowRated(5)>>
    /\ (/\ profile \in ScenarioProfiles
        /\ shows # <<>> /\ mediaType # "films")
         => /\ StatusOnly("watching") => ShowIds(filteredItems) = {ProfileShowRated(3)}
            /\ StatusOnly("watched") => ShowIds(filteredItems) = {ProfileShowRated(5)}
    /\ (StatusOnly("watched") /\ mediaType # "films")
         => \A i \in 1..Len(shows) :
               shows[i] \in Range(filteredItems)
                   <=> /\ shows[i].total_episodes > 0
                       /\ shows[i].watched_episodes = shows[i].total_episodes
    /\ Range(StatusFilter(shows, "watching")) \cap Range(StatusFilter(shows, "watched")) = {}

\* C13's case: Show B comes first in the list, the seed requested is Show A,
\* and the Library shows only Show A under 'watched'.
C13_Witness ==
    /\ profile.shows = <<ShowB(1), ShowA(2)>>
    /\ pc = "done" /\ similarRequests = <<2>>
    /\ StatusOnly("watched") /\ mediaType = "all"
    /\ Len(filteredItems) = 1 /\ filteredItems[1].tmdb_show_id = 2

\* ========================================================== tracking store
\* Modelled from the specification (sections 3, 4.1, 4.2 and 7).
TitleIds == 1..NumTitles

MovieDefaults ==
    [watched |-> FALSE, favourited |-> FALSE, watchlisted |-> FALSE,
     rating |-> 0, comment |-> ""]

ShowDefaults ==
    [favourited |-> FALSE, watchlisted |-> FALSE, rating |-> 0, comment |-> ""]

\* ValidationError: an invalid field value (rating outside 0..5)
ValidFields(fields) == "rating" \in DOMAIN fields => fields.rating \in 0..5

\* merges only the supplied fields that the record has
Merge(rec, fields) ==
    [f \in DOMAIN rec |-> IF f \in DOMAIN fields THEN fields[f] ELSE rec[f]]

Stamp(rec, created, updated) ==
    [f \in DOMAIN rec \cup {"created_at", "updated_at"} |->
        IF f = "created_at" THEN created
        ELSE IF f = "updated_at" THEN updated ELSE rec[f]]

\* upsertMovie / upsertShow on a store, at time t
upsertRecord(store, id, defaults, fields, t) ==
    IF id \in DOMAIN store
    THEN [store EXCEPT ![id] = Stamp(Merge(@, fields), @.created_at, t)]
    ELSE (id :> Stamp(Merge(defaults, fields), t, t)) @@ store

\* deleteMovie / deleteShow: removes the record, a no-op when there is none
deleteRecord(store, id) == [i \in DOMAIN store \ {id} |-> store[i]]

\* the cascade of deleteShow: the EpisodeRecords of the other shows
deleteEpisodes(eps, id) == [k \in {k \in DOMAIN eps : k[1] # id} |-> eps[k]]

\* the three stores as one value
Stores(m, sh, e) == [movies |-> m, shows |-> sh, episodes |-> e]

NowStores == Stores(movieStore, showStore, episodeStore)

\* the catalogue: the seasons of a show and the episodes of a season
Seasons == 1..NumSeasons

SeasonEpisodes(season) == IF season = 1 THEN {1, 2} ELSE {1}

TotalEpisodes == 2 + (NumSeasons - 1)

\* the EpisodeRecords of a show, and how many of them are watched
EpisodeKeys(eps, id) == {k \in DOMAIN eps : k[1] = id}

WatchedEpisodes(eps, id) == Cardinality({k \in EpisodeKeys(eps, id) : eps[k]})

\* a show becomes tracked the moment any episode is marked
ensureShow(store, id, t) ==
    IF id \in DOMAIN store THEN store ELSE (id :> Stamp(ShowDefaults, t, t)) @@ store

\* the key and the flag of an entry of a markEpisodes list
EntryKey(id, entry) == <<id, entry.season_number, entry.episode_number>>

\* markEpisode for each entry of the list, in order
markEpisodes(st, id, list, t) ==
    LET keys == {EntryKey(id, list[i]) : i \in 1..Len(list)}
        last(k) == CHOOSE i \in 1..Len(list) :
                      /\ EntryKey(id, list[i]) = k
                      /\ \A j \in (i + 1)..Len(list) : EntryKey(id, list[j]) # k
    IN  Stores(st.movies, ensureShow(st.shows, id, t),
               [k \in DOMAIN st.episodes \cup keys |->
                   IF k \in keys THEN list[last(k)].watched ELSE st.episodes[k]])

\* markSeason: the same flag for every episode of the season
markSeason(st, id, season, watched, t) ==
    LET keys == {<<id, season, e>> : e \in SeasonEpisodes(season)}
    IN  Stores(st.movies, ensureShow(st.shows, id, t),
               [k \in DOMAIN st.episodes \cup keys |->
                   IF k \in keys THEN watched ELSE st.episodes[k]])

getProgress(st, id) ==
    [watched_episodes |-> WatchedEpisodes(st.episodes, id),
     total_episodes |-> TotalEpisodes]

\* getShow: the record with its derived counts
ShowView(st, id) ==
    [favourited |-> st.shows[id].favourited,
     watchlisted |-> st.shows[id].watchlisted,
     rating |-> st.shows[id].rating,
     comment |-> st.shows[id].comment,
     created_at |-> st.shows[id].created_at,
     updated_at |-> st.shows[id].updated_at,
     watched_episodes |-> getProgress(st, id).watched_episodes,
     total_episodes |-> getProgress(st, id).total_episodes]

\* the episode list of a show
EpisodesOf(st, id) == [k \in EpisodeKeys(st.episodes, id) |-> st.episodes[k]]

\* What the server does with a request that reaches it, at time t: the
\* status of its response and the stores afterwards.  A lookup of a title
\* with no record is answered 404 (NotTracked), an invalid upsert 422.
ServeTitle(req, store, defaults, t) ==
    IF req.method = "GET"
    THEN [status |-> IF req.id \in DOMAIN store THEN 200 ELSE 404, store |-> store]
    ELSE IF req.method = "DELETE"
    THEN [status |-> 200, store |-> deleteRecord(store, req.id)]
    ELSE IF ValidFields(req.body)
    THEN [status |-> 200,
          store |-> upsertRecord(store, req.id, defaults, req.body, t)]
    ELSE [status |-> 422, store |-> store]

Serve(req, st, t) ==
    IF req.resource = "movie"
    THEN LET r == ServeTitle(req, st.movies, MovieDefaults, t)
         IN  [status |-> r.status,
              st |-> Stores(r.store, st.shows, st.episodes)]
    ELSE IF req.resource = "show"
    THEN LET r == ServeTitle(req, st.shows, ShowDefaults, t)
         IN  [status |-> r.status,
              st |-> Stores(st.movies, r.store,
                            IF req.method = "DELETE"
                            THEN deleteEpisodes(st.episodes, req.id)
                            ELSE st.episodes)]
    ELSE IF req.resource = "episodes" /\ req.method = "POST"
    THEN [status |-> 200, st |-> markEpisodes(st, req.id, req.body.episodes, t)]
    ELSE IF req.resource = "season"
    THEN [status |-> 200, st |-> markSeason(st, req.id, req.season, req.watched, t)]
    ELSE [status |-> 200, st |-> st]

\* ============================================================== API client
\* trackingAPI: the request each function sends
TrackingGetById(tmdbId) == [method |-> "GET", resource |-> "movie", id |-> tmdbId]

TrackingTrack(tmdbId, data) ==
    [method |-> "POST", resource |-> "movie", id |-> tmdbId, body |-> data]

TrackingUpdate(tmdbId, data) ==
    [method |-> "PATCH", resource |-> "movie", id |-> tmdbId, body |-> data]

\* fault variant of TrackingDelete: the path of shows.delete
TrackingDeleteShowsPath(tmdbId) ==
    [method |-> "DELETE", resource |-> "show", id |-> tmdbId]

TrackingDelete(tmdbId) == [method |-> "DELETE", resource |-> "movie", id |-> tmdbId]

ShowsGetById(tmdbId) == [method |-> "GET", resource |-> "show", id |-> tmdbId]

ShowsTrack(tmdbId, data) ==
    [method |-> "POST", resource |-> "show", id |-> tmdbId, body |-> data]

ShowsUpdate(tmdbId, data) ==
    [method |-> "PATCH", resource |-> "show", id |-> tmdbId, body |-> data]

\* fault variant of ShowsDelete: the path of trackingAPI.delete
ShowsDeleteMoviePath(tmdbId) ==
    [method |-> "DELETE", resource |-> "movie", id |-> tmdbId]

ShowsDelete(tmdbId) == [method |-> "DELETE", resource |-> "show", id |-> tmdbId]

ShowsGetEpisodes(tmdbId) == [method |-> "GET", resource |-> "episodes", id |-> tmdbId]

ShowsMarkEpisodes(tmdbId, episodes) ==
    [method |-> "POST", resource |-> "episodes", id |-> tmdbId,
     body |-> [episodes |-> episodes]]

\* fault variant of ShowsMarkSeason: watched is left out of the query, and
\* taken as false
ShowsMarkSeasonNoFlag(tmdbId, seasonNumber, watched) ==
    [method |-> "POST", resource |-> "season", id |-> tmdbId,
     season |-> seasonNumber, watched |-> FALSE]

ShowsMarkSeason(tmdbId, seasonNumber, watched) ==
    [method |-> "POST", resource |-> "season", id |-> tmdbId,
     season |-> seasonNumber, watched |-> watched]

\* fetchAPI: what the caller gets for a request that was delivered (or not)
\* and answered with a status.  threw: an APIError, of status 0 when the
\* request failed on the network.
\* fault variant of FetchAPI: response.ok is not tested
FetchAPIIgnoresStatus(delivered, status) ==
    [threw |-> ~delivered, status |-> IF delivered THEN status ELSE 0]

FetchAPI(delivered, status) ==
    [threw |-> ~delivered \/ status \notin 200..299,
     status |-> IF delivered THEN status ELSE 0]

\* the requests sent that were not lookups, the latest last, each with the
\* status of its answer: the latest as it was sent, the one before it by its
\* method and path
Line(req) == [method |-> req.method, resource |-> req.resource, id |-> req.id]

Logged(log, req, result) ==
    LET entry == [req |-> req, status |-> result.status]
    IN  IF req.method = "GET" THEN log
        ELSE IF log = <<>> THEN <<entry>>
        ELSE <<[log[Len(log)] EXCEPT !.req = Line(@)], entry>>

\* A caller awaits trackingAPI.f(...): the request is sent, the server
\* handles it if it is delivered, and fetchAPI returns or throws.  The clock
\* ticks with every upsert sent, and none is sent once it is at its bound.
Mutates(req) == req.method \in {"POST", "PATCH"}

Call(req) ==
    /\ Mutates(req) => now < MaxClock
    /\ \E delivered \in BOOLEAN :
        LET r == Serve(req, NowStores, now + 1)
            after == IF delivered THEN r.st ELSE NowStores
        IN  /\ movieStore' = after.movies
            /\ showStore' = after.shows
            /\ episodeStore' = after.episodes
            /\ now' = IF Mutates(req) THEN now + 1 ELSE now
            /\ apiResult' = FetchAPI(delivered, r.status)
            /\ requestLog' = Logged(requestLog, req, FetchAPI(delivered, r.status))

outsideStore == <<homeVars, libraryVars, profile, detailVars, widgetVars>>

\* the fields a caller supplies: a rating alone, at the low end of the valid
\* range, inside it and just below it; other fields with a rating at the high
\* end of the range and just above it
ApiRatings == {0 - 1, 0, 3}
ApiPayloads ==
    {[rating |-> r] : r \in ApiRatings}
        \cup {[favourited |-> TRUE, comment |-> "c", rating |-> r] : r \in {5, 6}}

\* The movie functions of trackingAPI, called in any order.
NextStore ==
    \/ (\E id \in TitleIds : Call(TrackingGetById(id))) /\ UNCHANGED outsideStore
    \/ (\E id \in TitleIds, data \in ApiPayloads : Call(TrackingTrack(id, data)))
            /\ UNCHANGED outsideStore
    \/ (\E id \in TitleIds, data \in ApiPayloads : Call(TrackingUpdate(id, data)))
            /\ UNCHANGED outsideStore
    \/ (\E id \in TitleIds : Call(TrackingDelete(id))) /\ UNCHANGED outsideStore

SpecStore == Init /\ [][NextStore]_vars

StoresAfter == Stores(movieStore', showStore', episodeStore')

\* the latest request sent that was not a lookup
LastSent(log) == log[Len(log)].req

\* the step is a call that sends req, a request that is not a lookup
Sends(req) == requestLog' # <<>> /\ LastSent(requestLog') = req /\ Call(req)

\* getMovie(id) = NotTracked in the stores st
NotTracked(st, id) == Serve(TrackingGetById(id), st, 0).status = 404

\* C14: a trackingAPI.delete(id) that reaches the server, in any store state
\* (in particular right after an upsert of id), returns without an error and
\* leaves no record for id, so that a lookup of id answers NotTracked; every
\* other record is as it was, and when id had no record nothing changes.
C14_DeleteMovie ==
    [][\A id \in TitleIds :
        (Sends(TrackingDelete(id)) /\ apiResult'.status # 0)
            => /\ ~apiResult'.threw
               /\ id \notin DOMAIN movieStore'
               /\ NotTracked(StoresAfter, id)
               /\ DOMAIN movieStore' = DOMAIN movieStore \ {id}
               /\ \A j \in DOMAIN movieStore' : movieStore'[j] = movieStore[j]
               /\ <<showStore', episodeStore', now'>> = <<showStore, episodeStore, now>>
               /\ id \notin DOMAIN movieStore => storeVars' = storeVars]_vars

\* C14's case: an upsert of title 1 was accepted, the delete of title 1 that
\* followed it returned normally, title 1 has no record and title 2 still has.
C14_Witness ==
    /\ Len(requestLog) = 2
    /\ requestLog[1] = [req |-> Line(TrackingTrack(1, <<>>)), status |-> 200]
    /\ requestLog[2].req = TrackingDelete(1)
    /\ apiResult = [threw |-> FALSE, status |-> 200]
    /\ DOMAIN movieStore = {2}

\* the rating of every record of a store is a valid one
RatingsValid(store) == \A id \in DOMAIN store : store[id].rating \in 0..5

\* C19: every stored rating is in 0..5, and a trackingAPI.track or update
\* whose rating is outside 0..5 changes nothing in the store: no field of an
\* existing record (updated_at and the fields sent with the rating included)
\* and no new record; when the request reached the server the caller gets
\* an APIError of status 422.
C19_InvalidRatingRejected ==
    /\ [](RatingsValid(movieStore) /\ RatingsValid(showStore))
    /\ [][\A id \in TitleIds, data \in ApiPayloads :
            (/\ data.rating \notin 0..5
             /\ Sends(TrackingTrack(id, data)) \/ Sends(TrackingUpdate(id, data)))
                => /\ StoresAfter = NowStores
                   /\ apiResult'.status # 0
                        => apiResult' = [threw |-> TRUE, status |-> 422]]_vars

\* C19's case: title 1 has a record rated 3 and not favourited; an update
\* with favourited and rating 6 was answered 422 and threw, and the record
\* still has its creation stamp as its update stamp, an earlier one.
C19_Witness ==
    /\ requestLog # <<>>
    /\ requestLog[Len(requestLog)].req
          = TrackingUpdate(1, [favourited |-> TRUE, comment |-> "c", rating |-> 6])
    /\ apiResult = [threw |-> TRUE, status |-> 422]
    /\ 1 \in DOMAIN movieStore
    /\ movieStore[1].rating = 3 /\ ~movieStore[1].favourited
    /\ movieStore[1].updated_at = movieStore[1].created_at
    /\ movieStore[1].updated_at < now

\* ======================================================= movie detail page
\* useParams(): the movie the page is opened on
MovieId == 1

\* trackingData?.f || default (each default is the falsy value of its field)
OrDefault(trackingData, f, default) ==
    IF trackingData = <<>> THEN default ELSE trackingData[1][f]

\* useState(trackingData?.f || default) of MovieDetail
MovieDetailState(trackingData) ==
    [watched |-> OrDefault(trackingData, "watched", FALSE),
     favourited |-> OrDefault(trackingData, "favourited", FALSE),
     rating |-> OrDefault(trackingData, "rating", 0),
     comment |-> OrDefault(trackingData, "comment", ""),
     saving |-> FALSE]

\* fetchMovieData settles with the movie's details: trackingData is the
\* record, or null when getById threw (not tracked, or not reached)
MovieDetailPageLoaded ==
    /\ moviePage.loading
    /\ Call(TrackingGetById(MovieId))
    /\ LET tracked == IF apiResult'.threw THEN <<>> ELSE <<movieStore[MovieId]>>
       IN  /\ moviePage' = [loading |-> FALSE, error |-> FALSE, trackingData |-> tracked]
           /\ movieDetail' = MovieDetailState(tracked)
    /\ UNCHANGED moviePending

\* fetchMovieData settles without them: getMovieDetail rejected
MovieDetailPageFailed ==
    /\ moviePage.loading
    /\ Call(TrackingGetById(MovieId))
    /\ moviePage' = [moviePage EXCEPT !.loading = FALSE, !.error = TRUE]
    /\ UNCHANGED <<movieDetail, moviePending>>

\* MovieDetail is rendered
MovieDetailShown == ~moviePage.loading /\ ~moviePage.error

Falsy(f, v) ==
    IF f = "rating" THEN v = 0 ELSE IF f = "comment" THEN v = "" ELSE ~v

\* fault variant of PayloadField: updatedData.f || f
PayloadFieldOr(updatedData, f, state) ==
    IF f \in DOMAIN updatedData /\ ~Falsy(f, updatedData[f])
    THEN updatedData[f] ELSE state[f]

\* updatedData.f ?? f
PayloadField(updatedData, f, state) ==
    IF f \in DOMAIN updatedData THEN updatedData[f] ELSE state[f]

\* autoSave of MovieDetail: the payload, from the state of the render the
\* handler belongs to, and the request
MoviePayload(updatedData) ==
    [f \in {"watched", "favourited", "rating", "comment"} |->
        PayloadField(updatedData, f, movieDetail)]

MovieSaveRequest(updatedData) ==
    IF moviePage.trackingData # <<>>
    THEN TrackingUpdate(MovieId, MoviePayload(updatedData))
    ELSE TrackingTrack(MovieId, MoviePayload(updatedData))

\* a handler sets state to shown and calls autoSave(updatedData), which runs
\* to its await
MovieAutoSave(updatedData, shown) ==
    /\ MovieDetailShown
    /\ Len(moviePending) < MaxInflight
    /\ now + Len(moviePending) < MaxClock
    /\ movieDetail' = [shown EXCEPT !.saving = TRUE]
    /\ moviePending' = Append(moviePending, MovieSaveRequest(updatedData))
    /\ UNCHANGED <<moviePage, storeVars, callerVars>>

MovieToggleWatched ==
    LET next == ~movieDetail.watched
    IN  MovieAutoSave([watched |-> next], [movieDetail EXCEPT !.watched = next])

MovieToggleFavourite ==
    LET next == ~movieDetail.favourited
    IN  MovieAutoSave([favourited |-> next], [movieDetail EXCEPT !.favourited = next])

\* onClick of a star of the rating picker
StarNext(rating, star) == IF rating = star THEN 0 ELSE star

MovieClickStar(star) ==
    LET next == StarNext(movieDetail.rating, star)
    IN  MovieAutoSave([rating |-> next], [movieDetail EXCEPT !.rating = next])

\* onChange and onBlur of the notes
MovieCommentChange(text) ==
    /\ MovieDetailShown
    /\ text # movieDetail.comment
    /\ movieDetail' = [movieDetail EXCEPT !.comment = text]
    /\ UNCHANGED <<moviePage, moviePending, storeVars, callerVars>>

MovieCommentBlur == MovieAutoSave([comment |-> movieDetail.comment], movieDetail)

\* autoSave after its await: catch logs the error, finally clears saving
MovieSaveSettle(detail, threw) == [detail EXCEPT !.saving = FALSE]

RemoveAt(seq, i) == SubSeq(seq, 1, i - 1) \o SubSeq(seq, i + 1, Len(seq))

\* the request of one awaiting autoSave is answered, or fails
MovieSaveSettled(i) ==
    /\ i \in 1..Len(moviePending)
    /\ Call(moviePending[i])
    /\ moviePending' = RemoveAt(moviePending, i)
    /\ movieDetail' = MovieSaveSettle(movieDetail, apiResult'.threw)
    /\ UNCHANGED moviePage

Stars == 1..5
MovieComments == {"", "c"}

\* the movie's record when the page is opened: none, one with the defaults,
\* one rated 3 with a comment, the favourite flag set
PriorMovieRecords ==
    {MovieDefaults,
     [MovieDefaults EXCEPT !.rating = 3, !.favourited = TRUE, !.comment = "c"]}

PriorMovieStores ==
    {<<>>} \cup {MovieId :> Stamp(rec, 0, 0) : rec \in PriorMovieRecords}

InitMovie ==
    /\ InitPages /\ profile = <<>> /\ InitCaller /\ InitDetail /\ InitWidgets
    /\ movieStore \in PriorMovieStores
    /\ showStore = <<>> /\ episodeStore = <<>> /\ now = 0

outsideMovie == <<homeVars, libraryVars, profile, showDetailVars, widgetVars>>

NextMovie ==
    \/ MovieDetailPageLoaded /\ UNCHANGED outsideMovie
    \/ MovieDetailPageFailed /\ UNCHANGED outsideMovie
    \/ MovieToggleWatched /\ UNCHANGED outsideMovie
    \/ MovieToggleFavourite /\ UNCHANGED outsideMovie
    \/ (\E star \in Stars : MovieClickStar(star)) /\ UNCHANGED outsideMovie
    \/ (\E text \in MovieComments : MovieCommentChange(text)) /\ UNCHANGED outsideMovie
    \/ MovieCommentBlur /\ UNCHANGED outsideMovie
    \/ (\E i \in 1..MaxInflight : MovieSaveSettled(i)) /\ UNCHANGED outsideMovie

SpecMovie == InitMovie /\ [][NextMovie]_vars

\* C16: every rating a save of the movie page carries is in 0..5; a click on
\* star s sends, and shows, 0 when the rating shown is s and s otherwise (a 0
\* is sent as 0); a save that the store accepts leaves the rating it carries
\* in the record; and when that rating is not 0 and is the one the record
\* already has, every field the save does not carry with a new value is
\* unchanged, updated_at excepted.
C16_RatingToggle ==
    /\ [](\A i \in 1..Len(moviePending) : moviePending[i].body.rating \in 0..5)
    /\ [][\A star \in Stars :
            MovieClickStar(star)
                => LET sent == moviePending'[Len(moviePending')].body.rating
                   IN  /\ sent = (IF movieDetail.rating = star THEN 0 ELSE star)
                       /\ movieDetail'.rating = sent]_vars
    /\ [][\A i \in 1..Len(moviePending) :
            (MovieSaveSettled(i) /\ apiResult'.status = 200)
                => LET body == moviePending[i].body
                       after == movieStore'[MovieId]
                   IN  /\ after.rating = body.rating
                       /\ (/\ MovieId \in DOMAIN movieStore
                           /\ body.rating # 0
                           /\ movieStore[MovieId].rating = body.rating)
                            => \A f \in DOMAIN after \ {"updated_at"} :
                                  (f \notin DOMAIN body \/ body[f] = movieStore[MovieId][f])
                                      => after[f] = movieStore[MovieId][f]]_vars

\* C16's case: the page was opened on a record rated 3; its only save, sent
\* by a click on star 3, carried rating 0 and was accepted; the record and
\* the page have rating 0 and the record's other fields are as they were.
C16_Witness ==
    /\ moviePage.trackingData # <<>>
    /\ moviePage.trackingData[1].rating = 3
    /\ Len(requestLog) = 1
    /\ requestLog[1].req = TrackingUpdate(MovieId,
                              [watched |-> FALSE, favourited |-> TRUE, rating |-> 0,
                               comment |-> "c"])
    /\ apiResult = [threw |-> FALSE, status |-> 200]
    /\ moviePending = <<>>
    /\ movieDetail.rating = 0
    /\ movieStore[MovieId].rating = 0
    /\ movieStore[MovieId].favourited /\ movieStore[MovieId].comment = "c"
    /\ movieStore[MovieId].updated_at = 1

\* C20: when a save of the movie page fails, what the page shows afterwards
\* differs from what it shows after the same save has succeeded.
C20_SaveFailureSurfaced ==
    [][\A i \in 1..Len(moviePending) :
        (MovieSaveSettled(i) /\ apiResult'.threw)
            => <<moviePage', movieDetail'>>
                   # <<moviePage, MovieSaveSettle(movieDetail, FALSE)>>]_vars

\* ======================================================== show detail page
\* useParams(): the show the page is opened on
ShowId == 1

ShowDetailState(view) ==
    [favourited |-> view.favourited, watchlisted |-> view.watchlisted,
     rating |-> view.rating, comment |-> view.comment, saving |-> FALSE]

\* fetchShowData's first await settles with the show's details: not tracked
\* (or getById not answered) ends the fetch, tracked goes on to getEpisodes
ShowFetched ==
    /\ showPage.loading /\ showPage.awaiting = "show"
    /\ Call(ShowsGetById(ShowId))
    /\ IF apiResult'.threw
       THEN /\ showPage' = [showPage EXCEPT !.loading = FALSE, !.awaiting = "none"]
            /\ UNCHANGED showDetail
       ELSE /\ showPage' = [showPage EXCEPT !.awaiting = "episodes",
                               !.trackingData = <<ShowView(NowStores, ShowId)>>]
            /\ showDetail' = ShowDetailState(ShowView(NowStores, ShowId))
    /\ UNCHANGED showTasks

\* fetchShowData's first await settles without them: getTVShowDetail rejected
ShowFetchFailed ==
    /\ showPage.loading /\ showPage.awaiting = "show"
    /\ Call(ShowsGetById(ShowId))
    /\ showPage' = [showPage EXCEPT !.loading = FALSE, !.awaiting = "none",
                                    !.error = TRUE]
    /\ UNCHANGED <<showDetail, showTasks>>

\* fetchShowData's second await settles
ShowEpisodesFetched ==
    /\ showPage.loading /\ showPage.awaiting = "episodes"
    /\ Call(ShowsGetEpisodes(ShowId))
    /\ showPage' = IF apiResult'.threw
                   THEN [showPage EXCEPT !.loading = FALSE, !.awaiting = "none",
                                         !.error = TRUE]
                   ELSE [showPage EXCEPT !.loading = FALSE, !.awaiting = "none",
                                         !.episodes = EpisodesOf(NowStores, ShowId)]
    /\ UNCHANGED <<showDetail, showTasks>>

\* the page is rendered
ShowShown == ~showPage.loading /\ ~showPage.error

\* the upserts and marks a handler that is awaiting has still to send
Remaining(task) ==
    IF task.at = "track" THEN 2
    ELSE IF task.at = "main" \/ (task.at = "getById" /\ task.handler = "mark") THEN 1
    ELSE 0

RECURSIVE Budget(_)
Budget(tasks) ==
    IF tasks = <<>> THEN 0 ELSE Remaining(Head(tasks)) + Budget(Tail(tasks))

\* a handler is called, once the one before it has returned, and runs to
\* its first await
ShowHandlerStarts(task) ==
    /\ ShowShown
    /\ showTasks = <<>>
    /\ now + Budget(showTasks) + Remaining(task) <= MaxClock
    /\ showTasks' = Append(showTasks, task)
    /\ UNCHANGED <<showPage, storeVars, callerVars>>

\* fault variant of ShowPayload: the payload is spread over trackingData
ShowPayloadSpread(updatedData) ==
    LET own == {"favourited", "watchlisted", "rating", "comment"}
        had == IF showPage.trackingData = <<>> THEN {}
               ELSE DOMAIN showPage.trackingData[1]
    IN  [f \in own \cup had |->
            IF f \in own THEN PayloadField(updatedData, f, showDetail)
            ELSE showPage.trackingData[1][f]]

\* autoSave of TVShowDetail: the payload and the request
ShowPayload(updatedData) ==
    [f \in {"favourited", "watchlisted", "rating", "comment"} |->
        PayloadField(updatedData, f, showDetail)]

ShowSaveRequest(updatedData) ==
    IF showPage.trackingData # <<>>
    THEN ShowsUpdate(ShowId, ShowPayload(updatedData))
    ELSE ShowsTrack(ShowId, ShowPayload(updatedData))

ShowAutoSave(updatedData, shown) ==
    /\ ShowHandlerStarts([handler |-> "save", at |-> "main",
                          req |-> ShowSaveRequest(updatedData)])
    /\ showDetail' = [shown EXCEPT !.saving = TRUE]

ShowToggleFavourite ==
    LET next == ~showDetail.favourited
    IN  ShowAutoSave([favourited |-> next], [showDetail EXCEPT !.favourited = next])

ShowToggleWatchlist ==
    LET next == ~showDetail.watchlisted
    IN  ShowAutoSave([watchlisted |-> next], [showDetail EXCEPT !.watchlisted = next])

\* handleEpisodeToggle and handleSeasonToggle up to their first await
\* fault variant of MarkStarts: the handler goes straight to its mark
MarkStartsWithoutCreate(req) ==
    /\ ShowHandlerStarts([handler |-> "mark", at |-> "main", req |-> req])
    /\ UNCHANGED showDetail

MarkStarts(req) ==
    /\ ShowHandlerStarts([handler |-> "mark",
                          at |-> IF showPage.trackingData = <<>> THEN "track" ELSE "main",
                          req |-> req])
    /\ UNCHANGED showDetail

handleEpisodeToggle(seasonNumber, episodeNumber, watched) ==
    MarkStarts(ShowsMarkEpisodes(ShowId,
                 <<[season_number |-> seasonNumber, episode_number |-> episodeNumber,
                    watched |-> watched]>>))

handleSeasonToggle(seasonNumber, watched) ==
    MarkStarts(ShowsMarkSeason(ShowId, seasonNumber, watched))

\* a handler leaves its try block: finally clears saving in autoSave
ShowTaskEnds(i) ==
    /\ showTasks' = RemoveAt(showTasks, i)
    /\ showDetail' = IF showTasks[i].handler = "save"
                     THEN [showDetail EXCEPT !.saving = FALSE] ELSE showDetail

ShowTaskGoes(i, at) ==
    /\ showTasks' = [showTasks EXCEPT ![i].at = at]
    /\ UNCHANGED showDetail

\* await shows.track(id, { favourited: false, rating: 0, comment: '' })
ShowTaskTrack(i) ==
    /\ i \in 1..Len(showTasks) /\ showTasks[i].at = "track"
    /\ Call(ShowsTrack(ShowId, [favourited |-> FALSE, rating |-> 0, comment |-> ""]))
    /\ IF apiResult'.threw THEN ShowTaskEnds(i) ELSE ShowTaskGoes(i, "getById")
    /\ UNCHANGED showPage

\* await shows.getById(id); setTrackingData(newTracking)
ShowTaskGetById(i) ==
    /\ i \in 1..Len(showTasks) /\ showTasks[i].at = "getById"
    /\ Call(ShowsGetById(ShowId))
    /\ IF apiResult'.threw
       THEN ShowTaskEnds(i) /\ UNCHANGED showPage
       ELSE /\ showPage' = [showPage EXCEPT
                               !.trackingData = <<ShowView(NowStores, ShowId)>>]
            /\ IF showTasks[i].handler = "save"
               THEN ShowTaskEnds(i) ELSE ShowTaskGoes(i, "main")

\* await shows.update / track (autoSave), markEpisodes / markSeason
ShowTaskMain(i) ==
    /\ i \in 1..Len(showTasks) /\ showTasks[i].at = "main"
    /\ Call(showTasks[i].req)
    /\ IF apiResult'.threw THEN ShowTaskEnds(i)
       ELSE IF showTasks[i].handler = "mark" THEN ShowTaskGoes(i, "refresh")
       ELSE IF showTasks[i].req.method = "POST" THEN ShowTaskGoes(i, "getById")
       ELSE ShowTaskEnds(i)
    /\ UNCHANGED showPage

\* await Promise.all([getEpisodes, getById]), the two answered together;
\* setEpisodes, setTrackingData
ShowTaskRefresh(i) ==
    /\ i \in 1..Len(showTasks) /\ showTasks[i].at = "refresh"
    /\ Call(ShowsGetById(ShowId))
    /\ showPage' = IF apiResult'.threw THEN showPage
                   ELSE [showPage EXCEPT
                           !.episodes = EpisodesOf(NowStores, ShowId),
                           !.trackingData = <<ShowView(NowStores, ShowId)>>]
    /\ ShowTaskEnds(i)

\* trackingAPI.shows is called from outside the page
ApiCall(req) ==
    /\ Mutates(req) => now + Budget(showTasks) < MaxClock
    /\ Call(req)
    /\ UNCHANGED showDetailVars

\* the show's record and episodes when the page is opened
PriorShowStores == {<<>>, ShowId :> Stamp(ShowDefaults, 0, 0)}

PriorEpisodeStores ==
    {<<>>,
     <<ShowId, 1, 1>> :> TRUE,
     (<<ShowId, 1, 1>> :> TRUE) @@ (<<ShowId, 1, 2>> :> FALSE)
         @@ (<<ShowId, 2, 1>> :> TRUE)}

InitShow ==
    /\ InitPages /\ profile = <<>> /\ InitCaller /\ InitDetail /\ InitWidgets
    /\ movieStore = <<>> /\ now = 0
    /\ showStore \in PriorShowStores
    /\ episodeStore \in (IF DOMAIN showStore = {} THEN {<<>>} ELSE PriorEpisodeStores)

outsideShow == <<homeVars, libraryVars, profile, movieDetailVars, widgetVars>>

NextShow ==
    \/ ShowFetched /\ UNCHANGED outsideShow
    \/ ShowFetchFailed /\ UNCHANGED outsideShow
    \/ ShowEpisodesFetched /\ UNCHANGED outsideShow
    \/ ShowToggleFavourite /\ UNCHANGED outsideShow
    \/ ShowToggleWatchlist /\ UNCHANGED outsideShow
    \/ (\E season \in Seasons, watched \in BOOLEAN :
            \E episode \in SeasonEpisodes(season) :
                handleEpisodeToggle(season, episode, watched)) /\ UNCHANGED outsideShow
    \/ (\E season \in Seasons, watched \in BOOLEAN :
            handleSeasonToggle(season, watched)) /\ UNCHANGED outsideShow
    \/ ShowTaskTrack(1) /\ UNCHANGED outsideShow
    \/ ShowTaskGetById(1) /\ UNCHANGED outsideShow
    \/ ShowTaskMain(1) /\ UNCHANGED outsideShow
    \/ ShowTaskRefresh(1) /\ UNCHANGED outsideShow
    \/ ApiCall(ShowsDelete(ShowId)) /\ UNCHANGED outsideShow

SpecShow == InitShow /\ [][NextShow]_vars

IsWatched(eps, k) == k \in DOMAIN eps /\ eps[k]

\* C15: a markSeason(id, season, true) that the store serves, sent by
\* handleSeasonToggle from any episode state, raises
\* getProgress(id).watched_episodes by the number of the season's episodes
\* that were not watched before, and leaves the EpisodeRecords of every other
\* season and show as they were.
C15_MarkSeason ==
    [][\A id \in TitleIds, season \in Seasons :
        (Sends(ShowsMarkSeason(id, season, TRUE)) /\ apiResult'.status = 200)
            => /\ getProgress(StoresAfter, id).watched_episodes
                    = getProgress(NowStores, id).watched_episodes
                        + Cardinality({e \in SeasonEpisodes(season) :
                                          ~IsWatched(episodeStore, <<id, season, e>>)})
               /\ \A k \in DOMAIN episodeStore \cup DOMAIN episodeStore' :
                     (k[1] # id \/ k[2] # season)
                         => /\ k \in DOMAIN episodeStore \cap DOMAIN episodeStore'
                            /\ episodeStore'[k] = episodeStore[k]]_vars

\* C15's case: the page was opened on a show with episode 1 of season 1 and
\* episode 1 of season 2 watched and episode 2 of season 1 not; the only
\* request that was not a lookup is handleSeasonToggle's markSeason(1, true);
\* the handler has returned and the page shows 3 watched episodes.
C15_Witness ==
    /\ Len(requestLog) = 1
    /\ requestLog[1] = [req |-> ShowsMarkSeason(ShowId, 1, TRUE), status |-> 200]
    /\ showTasks = <<>>
    /\ showPage.trackingData # <<>>
    /\ showPage.trackingData[1].watched_episodes = 3
    /\ DOMAIN showPage.episodes = {<<ShowId, 1, 1>>, <<ShowId, 1, 2>>, <<ShowId, 2, 1>>}
    /\ getProgress(NowStores, ShowId).watched_episodes = 3

\* C17: a show's watched_episodes is the number of its EpisodeRecords with
\* watched = true; it changes only in a step whose request is an episode or
\* season mark or a delete of that show; no save of the page carries
\* watched_episodes or total_episodes; and marking a watched episode watched
\* again leaves every record as it was.
C17_WatchedEpisodesDerived ==
    /\ [](\A id \in DOMAIN showStore :
            ShowView(NowStores, id).watched_episodes
                = Cardinality({k \in DOMAIN episodeStore : k[1] = id /\ episodeStore[k]}))
    /\ [](\A i \in 1..Len(showTasks) :
            showTasks[i].handler = "save"
                => DOMAIN showTasks[i].req.body
                       \cap {"watched_episodes", "total_episodes"} = {})
    /\ [][\A id \in TitleIds :
            WatchedEpisodes(episodeStore', id) # WatchedEpisodes(episodeStore, id)
                => /\ requestLog' # <<>>
                   /\ LastSent(requestLog').id = id
                   /\ \/ LastSent(requestLog').resource \in {"episodes", "season"}
                      \/ /\ LastSent(requestLog').resource = "show"
                         /\ LastSent(requestLog').method = "DELETE"]_vars
    /\ [][\A id \in TitleIds, season \in Seasons :
            \A episode \in SeasonEpisodes(season) :
                (/\ Sends(ShowsMarkEpisodes(id,
                            <<[season_number |-> season, episode_number |-> episode,
                               watched |-> TRUE]>>))
                 /\ apiResult'.status = 200
                 /\ IsWatched(episodeStore, <<id, season, episode>>))
                    => StoresAfter = NowStores]_vars

\* C17's case: a save of the page (favourited set) was accepted for a show
\* with two watched episodes, and the show still has two.
C17_Witness ==
    /\ requestLog # <<>>
    /\ LastSent(requestLog)
          = ShowsUpdate(ShowId, [favourited |-> TRUE, watchlisted |-> FALSE,
                                 rating |-> 0, comment |-> ""])
    /\ requestLog[Len(requestLog)].status = 200
    /\ showTasks = <<>>
    /\ showStore[ShowId].favourited
    /\ showStore[ShowId].updated_at > showStore[ShowId].created_at
    /\ ShowView(NowStores, ShowId).watched_episodes = 2

\* C18: every EpisodeRecord is of a show that has a record; a delete of a
\* show that the store serves removes the record and every EpisodeRecord of
\* the show; a show record that a mark creates has the defaults; and a show
\* record that an upsert creates has no watched episode.
C18_EpisodesBelongToShows ==
    /\ [](\A k \in DOMAIN episodeStore : k[1] \in DOMAIN showStore)
    /\ [][\A id \in TitleIds :
            (Sends(ShowsDelete(id)) /\ apiResult'.status # 0)
                => /\ id \notin DOMAIN showStore'
                   /\ EpisodeKeys(episodeStore', id) = {}]_vars
    /\ [][\A id \in TitleIds :
            (id \notin DOMAIN showStore /\ id \in DOMAIN showStore')
                => /\ LastSent(requestLog').resource \in {"episodes", "season"}
                        => showStore'[id] = Stamp(ShowDefaults, now', now')
                   /\ LastSent(requestLog').resource = "show"
                        => WatchedEpisodes(episodeStore', id) = 0]_vars

\* C18's case: the page was opened on a show with two watched episodes; the
\* show was deleted and then tracked again by a save of the page; the new
\* record has no watched episode.
C18_Witness ==
    /\ Len(requestLog) = 2
    /\ requestLog[1] = [req |-> Line(ShowsDelete(ShowId)), status |-> 200]
    /\ LastSent(requestLog).resource = "show" /\ Mutates(LastSent(requestLog))
    /\ requestLog[2].status = 200
    /\ showPage.trackingData # <<>>
    /\ showPage.trackingData[1].watched_episodes = 2
    /\ ShowId \in DOMAIN showStore
    /\ showStore[ShowId].created_at > 0
    /\ ShowView(NowStores, ShowId).watched_episodes = 0

\* ============================================================ hero carousel
\* Home hands HeroCarousel the heroItems it has built (at most five)
MaxSlides == 5

\* fetchHomeData's setHeroItems(built): Home renders the carousel with the
\* items; the interval effect runs again when items.length has changed
HeroItemsSet(n) ==
    /\ slides = 0
    /\ slides' = n
    /\ UNCHANGED <<idx, paused, resumeTimer, pointerOver, lastMove>>

\* the effect of lines 10-14 has an interval running
IntervalRuns == ~paused /\ slides > 1

\* the interval's callback: setIdx(i => (i + 1) % items.length)
IntervalFires ==
    /\ IntervalRuns
    /\ idx' = (idx + 1) % slides
    /\ lastMove' = "auto"
    /\ UNCHANGED <<slides, paused, resumeTimer, pointerOver>>

\* a dot is clicked (with the mouse, or with the keyboard while the pointer
\* is elsewhere); the dots are rendered when there is more than one item
goTo(i) ==
    /\ slides > 1 /\ i \in 0..(slides - 1)
    /\ idx' = i
    /\ paused' = TRUE
    /\ resumeTimer' = TRUE
    /\ lastMove' = "dot"
    /\ UNCHANGED <<slides, pointerOver>>

\* the timeout goTo has set fires: setPaused(false)
ResumeTimerFires ==
    /\ resumeTimer
    /\ paused' = FALSE
    /\ resumeTimer' = FALSE
    /\ UNCHANGED <<slides, idx, pointerOver, lastMove>>

\* onMouseEnter and onMouseLeave of the carousel's root element, which is
\* rendered when there is an item
onMouseEnter ==
    /\ slides > 0 /\ ~pointerOver
    /\ pointerOver' = TRUE
    /\ resumeTimer' = FALSE
    /\ paused' = TRUE
    /\ UNCHANGED <<slides, idx, lastMove>>

onMouseLeave ==
    /\ slides > 0 /\ pointerOver
    /\ pointerOver' = FALSE
    /\ resumeTimer' = FALSE
    /\ paused' = FALSE
    /\ UNCHANGED <<slides, idx, lastMove>>

outsideCarousel ==
    <<homeVars, libraryVars, profile, storeVars, callerVars, detailVars,
      seasonVars, userVars, scopeVars>>

NextCarousel ==
    \/ (\E n \in 1..MaxSlides : HeroItemsSet(n)) /\ UNCHANGED outsideCarousel
    \/ IntervalFires /\ UNCHANGED outsideCarousel
    \/ (\E i \in 0..(MaxSlides - 1) : goTo(i)) /\ UNCHANGED outsideCarousel
    \/ ResumeTimerFires /\ UNCHANGED outsideCarousel
    \/ onMouseEnter /\ UNCHANGED outsideCarousel
    \/ onMouseLeave /\ UNCHANGED outsideCarousel

SpecCarousel == Init /\ [][NextCarousel]_vars

\* C30: the slide index is always one of the items' positions; the index
\* advances on its own only by one modulo the number of items, only while
\* the carousel is not paused and has more than one item, and never while
\* the pointer is over the carousel, also after a dot has been clicked and
\* the resume timer it set has fired; once the pointer has left, the
\* carousel advances on its own again.
C30_NoAdvanceUnderPointer ==
    /\ (slides > 0 => idx \in 0..(slides - 1))
    /\ (~pointerOver /\ ~resumeTimer /\ slides > 1 => IntervalRuns)
    /\ (pointerOver => ~IntervalRuns)

\* ============================================================== season list
\* The episode records SeasonList is handed: the episodes state of
\* TVShowDetail, the answer of shows.getEpisodes, in the order of the keys.
EpisodeRecord(season, episode, watched) ==
    [season_number |-> season, episode_number |-> episode, watched |-> watched]

CatalogueEpisodes ==
    {<<season, episode>> : season \in Seasons, episode \in {1, 2}}
        \cap {k \in Seasons \X {1, 2} : k[2] \in SeasonEpisodes(k[1])}

RECURSIVE EpisodeList(_, _, _)
EpisodeList(season, episode, watchedOf) ==
    IF season > NumSeasons THEN <<>>
    ELSE IF episode > 2 THEN EpisodeList(season + 1, 1, watchedOf)
    ELSE (IF <<season, episode>> \in DOMAIN watchedOf
          THEN <<EpisodeRecord(season, episode, watchedOf[<<season, episode>>])>>
          ELSE <<>>) \o EpisodeList(season, episode + 1, watchedOf)

\* the lists of a show of which episodes of the first two seasons are tracked
TrackedEpisodeLists ==
    {EpisodeList(1, 1, watchedOf) :
        watchedOf \in UNION {[keys -> BOOLEAN] :
                                keys \in SUBSET {k \in CatalogueEpisodes : k[1] <= 2}}}

\* Array.prototype.filter
RECURSIVE Filter(_, _)
Filter(list, keep) ==
    IF list = <<>> THEN <<>>
    ELSE (IF keep[Head(list)] THEN <<Head(list)>> ELSE <<>>)
             \o Filter(Tail(list), keep)

OfSeason(list, seasonNumber) ==
    Filter(list, [e \in Range(list) |-> e.season_number = seasonNumber])

WatchedOnly(list) == Filter(list, [e \in Range(list) |-> e.watched])

getSeasonProgressAllSeasons(seasonNumber, episodeCount) ==
    [watched |-> Len(WatchedOnly(trackedEpisodes)), total |-> episodeCount]

getSeasonProgress(seasonNumber, episodeCount) ==
    LET seasonEpisodes == OfSeason(trackedEpisodes, seasonNumber)
    IN  [watched |-> Len(WatchedOnly(seasonEpisodes)), total |-> episodeCount]

\* EpisodeList.isEpisodeWatched, on the list SeasonList hands EpisodeList
isEpisodeWatched(list, episodeNumber) ==
    LET found == Filter(list, [e \in Range(list) |-> e.episode_number = episodeNumber])
    IN  IF found # <<>> THEN Head(found).watched ELSE FALSE

\* season.episode_count of the catalogue
EpisodeCount(season) == Cardinality(SeasonEpisodes(season))

\* seasonData[seasonNumber] is truthy
Loaded(data, season) == season \in DOMAIN data

\* the season has an awaiting fetch
Fetching(season) ==
    \E i \in 1..Len(seasonFetches) : seasonFetches[i].season = season

\* toggleSeason up to its await (or to its end); a season is toggled again
\* only after its awaiting fetch has settled
toggleSeason(seasonNumber) ==
    /\ IF expandedSeason = seasonNumber
       THEN /\ expandedSeason' = 0
            /\ UNCHANGED <<seasonLoading, seasonFetches>>
       ELSE /\ expandedSeason' = seasonNumber
            /\ IF Loaded(seasonData, seasonNumber)
               THEN UNCHANGED <<seasonLoading, seasonFetches>>
               ELSE /\ Len(seasonFetches) < MaxInflight
                    /\ ~Fetching(seasonNumber)
                    /\ seasonLoading' = (seasonNumber :> TRUE) @@ seasonLoading
                    /\ seasonFetches' =
                           Append(seasonFetches,
                                  [season |-> seasonNumber,
                                   seasonData |-> seasonData,
                                   loading |-> seasonLoading,
                                   again |-> seasonNumber \in seasonFetched])
    /\ UNCHANGED <<trackedEpisodes, seasonData, seasonFetched>>

\* getTVSeasonDetail of the i-th awaiting call settles: the rest of
\* toggleSeason runs with the seasonData and loading of the render the call
\* was made from
SeasonFetchSettled(i, ok) ==
    /\ i \in 1..Len(seasonFetches)
    /\ LET call == seasonFetches[i]
       IN  /\ seasonData' =
                  IF ok THEN (call.season :> SeasonEpisodes(call.season)) @@ call.seasonData
                  ELSE seasonData
           /\ seasonLoading' = (call.season :> FALSE) @@ call.loading
           /\ seasonFetched' = IF ok THEN seasonFetched \cup {call.season}
                               ELSE seasonFetched
    /\ seasonFetches' = RemoveAt(seasonFetches, i)
    /\ UNCHANGED <<trackedEpisodes, expandedSeason>>

InitSeasons ==
    /\ InitPages /\ profile = <<>> /\ InitBackend /\ InitCaller /\ InitDetail
    /\ InitCarousel /\ InitSeasonList /\ InitUsers /\ InitScope
    /\ trackedEpisodes \in TrackedEpisodeLists

outsideSeasons ==
    <<homeVars, libraryVars, profile, storeVars, callerVars, detailVars,
      carouselVars, userVars, scopeVars>>

NextSeasons ==
    \/ (\E season \in Seasons : toggleSeason(season)) /\ UNCHANGED outsideSeasons
    \/ (\E i \in 1..MaxInflight, ok \in BOOLEAN : SeasonFetchSettled(i, ok))
           /\ UNCHANGED outsideSeasons

SpecSeasons == InitSeasons /\ [][NextSeasons]_vars

\* C25: the watched count shown for a season is the number of the episode
\* records of that season that have watched = TRUE, whatever seasons are
\* loaded, loading or have failed to load; an episode without a record is
\* shown as not watched.
C25_SeasonProgress ==
    \A season \in Seasons :
        /\ getSeasonProgress(season, EpisodeCount(season)).watched
               = Cardinality({i \in 1..Len(trackedEpisodes) :
                                 /\ trackedEpisodes[i].season_number = season
                                 /\ trackedEpisodes[i].watched})
        /\ \A episode \in SeasonEpisodes(season) :
               isEpisodeWatched(OfSeason(trackedEpisodes, season), episode)
                   = (EpisodeRecord(season, episode, TRUE) \in Range(trackedEpisodes))

C25_Witness ==
    /\ Loaded(seasonData, 1) /\ Fetching(2)
    /\ getSeasonProgress(1, EpisodeCount(1)).watched = 1
    /\ getSeasonProgress(2, EpisodeCount(2)).watched = 1
    /\ EpisodeRecord(1, 2, FALSE) \in Range(trackedEpisodes)

\* C29: the details fetched for a season stay in seasonData, whichever fetch
\* completes later; a season whose fetch has succeeded is not fetched again;
\* a season's loading flag is false once no fetch of it is awaiting.
C29_SeasonCache ==
    /\ \A season \in seasonFetched : Loaded(seasonData, season)
    /\ \A i \in 1..Len(seasonFetches) : ~seasonFetches[i].again
    /\ \A season \in DOMAIN seasonLoading :
           seasonLoading[season] => Fetching(season)

\* ================================================================= profiles
NumUsers == 2       \* profile ids the backend hands out

UserIds == 1..NumUsers

\* Strings are sequences of characters.
DigitChars == <<"0", "1", "2", "3", "4", "5", "6", "7", "8", "9">>

IsDigit(c) == \E d \in 1..10 : DigitChars[d] = c

DigitValue(c) == (CHOOSE d \in 1..10 : DigitChars[d] = c) - 1

\* String(n) of a non-negative integer
RECURSIVE StringOf(_)
StringOf(n) ==
    IF n < 10 THEN <<DigitChars[n + 1]>>
    ELSE StringOf(n \div 10) \o <<DigitChars[(n % 10) + 1]>>

\* A parsed number is <<n>>; NaN is <<>>.
NaN == <<>>

RECURSIVE SkipSpaces(_)
SkipSpaces(str) ==
    IF str # <<>> /\ Head(str) = " " THEN SkipSpaces(Tail(str)) ELSE str

RECURSIVE ParseDigits(_, _)
ParseDigits(str, acc) ==
    IF str = <<>> \/ ~IsDigit(Head(str)) THEN acc
    ELSE ParseDigits(Tail(str), acc * 10 + DigitValue(Head(str)))

\* parseInt(localStorage.getItem(STORAGE_KEY), 10); getItem gives null for
\* an absent key, and parseInt(null) is NaN
parseInt(item) ==
    IF item = <<>> THEN NaN
    ELSE LET str == SkipSpaces(item[1])
             signed == str # <<>> /\ Head(str) \in {"+", "-"}
             digits == IF signed THEN Tail(str) ELSE str
         IN  IF digits = <<>> \/ ~IsDigit(Head(digits)) THEN NaN
             ELSE IF signed /\ Head(str) = "-" THEN <<0 - ParseDigits(digits, 0)>>
             ELSE <<ParseDigits(digits, 0)>>

\* a number (or NaN) in a condition
Truthy(n) == n # NaN /\ n[1] # 0

\* init's test: savedId && data.some((u) => u.id === savedId)
RestoresAnySaved(savedId, data) == Truthy(savedId)

Restores(savedId, data) == Truthy(savedId) /\ savedId[1] \in data

\* init after its await: refreshUsers has returned the list, or [] when
\* usersAPI.getAll failed (the state "users" is then left as it is)
InitSettled(ok) ==
    /\ userLoading
    /\ LET data == IF ok THEN serverUsers ELSE {}
           savedId == parseInt(storage)
       IN  /\ users' = IF ok THEN data ELSE users
           /\ IF Restores(savedId, data)
              THEN currentUser' = savedId[1] /\ activeUserId' = savedId[1]
              ELSE UNCHANGED <<currentUser, activeUserId>>
           /\ restored' = Restores(savedId, data)
    /\ userLoading' = FALSE
    /\ UNCHANGED <<serverUsers, storage, chosen>>

\* AppContent: what is rendered
ChooserShown == ~userLoading /\ currentUser = 0
PagesShown == ~userLoading /\ currentUser # 0

\* a profile of the chooser is clicked
selectUser(user) ==
    /\ ChooserShown /\ user \in users
    /\ currentUser' = user
    /\ activeUserId' = user
    /\ storage' = <<StringOf(user)>>
    /\ chosen' = user
    /\ restored' = FALSE
    /\ UNCHANGED <<serverUsers, users, userLoading>>

\* Header's "Switch Profile"
clearUser ==
    /\ PagesShown
    /\ currentUser' = 0
    /\ activeUserId' = 0
    /\ storage' = <<>>
    /\ chosen' = 0
    /\ restored' = FALSE
    /\ UNCHANGED <<serverUsers, users, userLoading>>

\* the chooser's handleAdd and handleDelete: the request is served, then
\* refreshUsers sets the list (or fails and leaves it)
handleAdd(user) ==
    /\ ChooserShown /\ user \notin serverUsers
    /\ serverUsers' = serverUsers \cup {user}
    /\ \E ok \in BOOLEAN : users' = IF ok THEN serverUsers' ELSE users
    /\ UNCHANGED <<currentUser, userLoading, activeUserId, storage, chosen,
                   restored>>

handleDelete(user) ==
    /\ ChooserShown /\ user \in users /\ user \in serverUsers
    /\ serverUsers' = serverUsers \ {user}
    /\ \E ok \in BOOLEAN : users' = IF ok THEN serverUsers' ELSE users
    /\ UNCHANGED <<currentUser, userLoading, activeUserId, storage, chosen,
                   restored>>

\* the page is loaded again: the module and the provider start afresh,
\* localStorage and the backend stay
Reload ==
    /\ users' = {} /\ currentUser' = 0 /\ userLoading' = TRUE
    /\ activeUserId' = 0 /\ restored' = FALSE
    /\ UNCHANGED <<serverUsers, storage, chosen>>

\* what a browser may hold under the key before the application runs
StoredItems ==
    {<<>>, <<<<>>>>, <<<<"x">>>>, <<<<"0">>>>, <<<<"1", "x">>>>}
        \cup {<<StringOf(user)>> : user \in 1..(NumUsers + 1)}

InitUser ==
    /\ InitPages /\ profile = <<>> /\ InitBackend /\ InitCaller /\ InitDetail
    /\ InitCarousel /\ InitSeasonList /\ trackedEpisodes = <<>> /\ InitScope
    /\ InitUserProvider
    /\ serverUsers \in SUBSET UserIds
    /\ storage \in StoredItems
    /\ chosen = 0 - 1

outsideUser ==
    <<homeVars, libraryVars, profile, storeVars, callerVars, detailVars,
      carouselVars, seasonVars, scopeVars>>

NextUser ==
    \/ (\E ok \in BOOLEAN : InitSettled(ok)) /\ UNCHANGED outsideUser
    \/ (\E user \in UserIds : selectUser(user)) /\ UNCHANGED outsideUser
    \/ clearUser /\ UNCHANGED outsideUser
    \/ (\E user \in UserIds : handleAdd(user)) /\ UNCHANGED outsideUser
    \/ (\E user \in UserIds : handleDelete(user)) /\ UNCHANGED outsideUser
    \/ Reload /\ UNCHANGED outsideUser

SpecUser == InitUser /\ [][NextUser]_vars

\* C23: a fresh start after selectUser(u) restores u as the current user and
\* as the client's active user when u is in the list the start fetched, and
\* no profile otherwise; a fresh start after clearUser restores none; with a
\* saved id that is absent, unparsable or not in the list no profile is
\* active and the chooser is shown; and whenever a current user is set, the
\* client's active user id and the saved id are that user's id.
C23_ProfileSurvivesReload ==
    /\ [](currentUser # 0 =>
              activeUserId = currentUser /\ parseInt(storage) = <<currentUser>>)
    /\ [][(userLoading /\ ~userLoading') =>
              /\ (chosen \in UserIds) =>
                     IF chosen \in users'
                     THEN currentUser' = chosen /\ activeUserId' = chosen
                     ELSE ChooserShown' /\ activeUserId' = 0
              /\ chosen = 0 => ChooserShown' /\ activeUserId' = 0
              /\ (~Truthy(parseInt(storage)) \/ parseInt(storage)[1] \notin users')
                     => ChooserShown' /\ activeUserId' = 0]_vars

C23_Witness ==
    /\ chosen = 1 /\ restored /\ currentUser = 1 /\ activeUserId = 1
    /\ users = {1, 2}

\* ======================================================== the active profile
\* The client of part_002: every trackingAPI function puts the active user
\* of the moment it is called into the query (?user_id=${_activeUserId}).
WithUser(req) == [req |-> req, user_id |-> activeUserId]

\* handleEpisodeToggle on a show without a record: the requests it sends,
\* one after the answer of the other
ToggleDefaults == [favourited |-> FALSE, rating |-> 0, comment |-> ""]

ToggleMark ==
    ShowsMarkEpisodes(ShowId, <<EpisodeRecord(1, 1, TRUE)>>)

ToggleRequests ==
    <<ShowsTrack(ShowId, ToggleDefaults), ShowsGetById(ShowId), ToggleMark,
      ShowsGetEpisodes(ShowId)>>

\* The backend (modelled from the specification): a request is served in
\* the namespace of the profile it names; it is refused when it names none
\* or one that does not exist, and a lookup of a show the profile has no
\* record of is answered 404.
Served(sent) ==
    /\ sent.user_id \in serverUsers
    /\ sent.req.method = "GET" =>
           /\ sent.user_id \in DOMAIN profileData
           /\ profileData[sent.user_id] # {}

Written(sent, owner) ==
    IF sent.req.method = "GET" THEN {}
    ELSE {[resource |-> sent.req.resource, owner |-> owner]}

\* the handler is started on the show page and sends its first request
ScopedToggleStarts ==
    /\ PagesShown /\ scopeTask = <<>>
    /\ LET sent == WithUser(ToggleRequests[1])
       IN  /\ scopeTask' = <<[owner |-> currentUser, step |-> 1, awaiting |-> sent]>>
           /\ scopedSent' = <<[sent |-> Line(sent.req), user_id |-> sent.user_id,
                               owner |-> currentUser]>>
    /\ UNCHANGED profileData

\* the request the handler awaits is answered (or fails); the handler goes
\* on to its next request, or ends
ScopedAnswered(delivered) ==
    /\ scopeTask # <<>>
    /\ LET task == scopeTask[1]
           ok == delivered /\ Served(task.awaiting)
           sent == WithUser(ToggleRequests[task.step + 1])
       IN  /\ profileData' =
                  IF ok /\ Written(task.awaiting, task.owner) # {}
                  THEN (task.awaiting.user_id :>
                            (IF task.awaiting.user_id \in DOMAIN profileData
                             THEN profileData[task.awaiting.user_id] ELSE {})
                                \cup Written(task.awaiting, task.owner))
                           @@ profileData
                  ELSE profileData
           /\ IF ok /\ task.step < Len(ToggleRequests)
              THEN /\ scopeTask' = <<[owner |-> task.owner, step |-> task.step + 1,
                                      awaiting |-> sent]>>
                   /\ scopedSent' = <<[sent |-> Line(sent.req),
                                       user_id |-> sent.user_id,
                                       owner |-> task.owner]>>
              ELSE scopeTask' = <<>> /\ UNCHANGED scopedSent

InitScoped ==
    /\ InitPages /\ profile = <<>> /\ InitBackend /\ InitCaller /\ InitDetail
    /\ InitCarousel /\ InitSeasonList /\ trackedEpisodes = <<>> /\ InitScope
    /\ InitUserProvider
    /\ serverUsers = UserIds /\ storage = <<>> /\ chosen = 0 - 1

outsideScope ==
    <<homeVars, libraryVars, profile, storeVars, callerVars, detailVars,
      carouselVars, seasonVars>>

NextScope ==
    \/ (\E ok \in BOOLEAN : InitSettled(ok)) /\ UNCHANGED <<outsideScope, scopeVars>>
    \/ (\E user \in UserIds : selectUser(user)) /\ UNCHANGED <<outsideScope, scopeVars>>
    \/ clearUser /\ UNCHANGED <<outsideScope, scopeVars>>
    \/ ScopedToggleStarts /\ UNCHANGED <<outsideScope, userVars>>
    \/ (\E delivered \in BOOLEAN : ScopedAnswered(delivered))
           /\ UNCHANGED <<outsideScope, userVars>>

SpecScope == InitScoped /\ [][NextScope]_vars

\* C21: every request of a handler started under a profile names that
\* profile, whatever selectUser and clearUser do while the handler is
\* awaiting, and what is written for a profile was written by a handler
\* started under it.
C21_RequestsNameTheirProfile ==
    /\ (scopedSent # <<>> => scopedSent[1].user_id = scopedSent[1].owner)
    /\ \A user \in DOMAIN profileData :
           \A w \in profileData[user] : w.owner = user

\* ================================================= saves of an untracked movie
\* C26: once a create (track) sent by the movie page has been served, the
\* record is known to exist: a save started after that is sent as an update,
\* so that the page has at most one create served.
C26_CreateAtMostOnce ==
    [][(/\ Len(moviePending') > Len(moviePending)
        /\ requestLog # <<>>
        /\ LastSent(requestLog).method = "POST"
        /\ requestLog[Len(requestLog)].status \in 200..299)
          => moviePending'[Len(moviePending')].method = "PATCH"]_vars

\* C28: the movie page takes a title as not tracked only when the store has
\* no record of it: the first save of a page is not a create (track) when
\* the title has a record, whether the page's lookup was answered or failed.
C28_FailedLookupIsNotUntracked ==
    [][(/\ moviePending = <<>> /\ requestLog = <<>>
        /\ Len(moviePending') = 1
        /\ moviePending'[1].method = "POST")
          => MovieId \notin DOMAIN movieStore]_vars

\* ================================================= toggles of an untracked show
\* the task of handleEpisodeToggle or handleSeasonToggle takes a step
MarkTaskSteps(at) ==
    /\ showTasks # <<>>
    /\ showTasks[1].handler = "mark" /\ showTasks[1].at = at
    /\ showTasks' # showTasks

\* C24: an episode or season toggle on a show the page has no tracking
\* record of first sends the create with favourited false, rating 0 and an
\* empty comment; when the create fails the handler ends without a mark;
\* the mark is sent only once the page holds a record; and after a mark and
\* a refetch that were answered, the page's episodes and tracking data are
\* what the store holds then.
C24_CreateBeforeMark ==
    [][/\ (showTasks = <<>> /\ showTasks' # <<>> /\ showTasks'[1].handler = "mark")
            => (showTasks'[1].at = "track" <=> showPage.trackingData = <<>>)
       /\ MarkTaskSteps("track")
            => /\ requestLog' # <<>>
               /\ LastSent(requestLog') =
                      ShowsTrack(ShowId, [favourited |-> FALSE, rating |-> 0,
                                          comment |-> ""])
               /\ IF apiResult'.threw THEN showTasks' = <<>>
                  ELSE showTasks'[1].at = "getById"
       /\ MarkTaskSteps("main")
            => /\ showPage.trackingData # <<>>
               /\ requestLog' # <<>> /\ LastSent(requestLog') = showTasks[1].req
               /\ IF apiResult'.threw THEN showTasks' = <<>>
                  ELSE showTasks'[1].at = "refresh"
       /\ (MarkTaskSteps("refresh") /\ ~apiResult'.threw)
            => /\ showPage'.episodes = EpisodesOf(StoresAfter, ShowId)
               /\ showPage'.trackingData = <<ShowView(StoresAfter, ShowId)>>]_vars

\* C24's case: the page was opened on a show without a record, the create
\* and then a mark were served, and the page holds the episode refetched
C24_Witness ==
    /\ showTasks = <<>>
    /\ Len(requestLog) = 2
    /\ requestLog[1] = [req |-> Line(ShowsTrack(ShowId, <<>>)), status |-> 200]
    /\ requestLog[2].req.resource \in {"episodes", "season"}
    /\ requestLog[2].status = 200
    /\ showPage.trackingData # <<>>
    /\ showPage.episodes = EpisodesOf(NowStores, ShowId)
    /\ DOMAIN showPage.episodes # {}

\* ============================================ overlapping handlers of a show
\* A handler of the show page is started while others are awaiting: React
\* has rendered the state the others have set so far, and the new handler
\* reads trackingData and the fields from that render.
ShowHandlerOverlaps(task) ==
    /\ ShowShown
    /\ Len(showTasks) < MaxInflight
    /\ showTasks' = Append(showTasks, task)
    /\ UNCHANGED <<showPage, storeVars, callerVars>>

OverlappingAutoSave(updatedData, shown) ==
    /\ ShowHandlerOverlaps([handler |-> "save", at |-> "main",
                            req |-> ShowSaveRequest(updatedData)])
    /\ showDetail' = [shown EXCEPT !.saving = TRUE]

OverlappingToggleFavourite ==
    LET next == ~showDetail.favourited
    IN  OverlappingAutoSave([favourited |-> next],
                            [showDetail EXCEPT !.favourited = next])

OverlappingMark(req) ==
    /\ ShowHandlerOverlaps([handler |-> "mark",
                            at |-> IF showPage.trackingData = <<>> THEN "track" ELSE "main",
                            req |-> req])
    /\ UNCHANGED showDetail

OverlappingEpisodeToggle ==
    OverlappingMark(ShowsMarkEpisodes(ShowId, <<EpisodeRecord(1, 1, TRUE)>>))

OverlappingSeasonToggle ==
    OverlappingMark(ShowsMarkSeason(ShowId, 1, TRUE))

\* the page is opened on a show that has no record
InitShowRace ==
    /\ InitPages /\ profile = <<>> /\ InitBackend /\ InitCaller /\ InitDetail
    /\ InitWidgets

NextShowRace ==
    \/ ShowFetched /\ UNCHANGED outsideShow
    \/ OverlappingToggleFavourite /\ UNCHANGED outsideShow
    \/ OverlappingEpisodeToggle /\ UNCHANGED outsideShow
    \/ OverlappingSeasonToggle /\ UNCHANGED outsideShow
    \/ (\E i \in 1..MaxInflight : ShowTaskTrack(i)) /\ UNCHANGED outsideShow
    \/ (\E i \in 1..MaxInflight : ShowTaskGetById(i)) /\ UNCHANGED outsideShow
    \/ (\E i \in 1..MaxInflight : ShowTaskMain(i)) /\ UNCHANGED outsideShow
    \/ (\E i \in 1..MaxInflight : ShowTaskRefresh(i)) /\ UNCHANGED outsideShow

SpecShowRace == InitShowRace /\ [][NextShowRace]_vars

TrackedFields(rec) ==
    [f \in {"favourited", "watchlisted", "rating", "comment"} |-> rec[f]]

\* C27: the handlers of the page of a show without a record, however they
\* overlap, have at most one create (track) served, and the create a toggle
\* sends with default fields leaves the favourite, watchlist, rating and
\* comment of a record that is already stored as they are.
C27_OneCreateNoOverwrite ==
    /\ [](Len(requestLog) = 2 =>
              ~(/\ requestLog[1].req = Line(ShowsTrack(ShowId, <<>>))
                /\ requestLog[1].status \in 200..299
                /\ requestLog[2].req.method = "POST"
                /\ requestLog[2].req.resource = "show"))
    /\ [][(/\ showTasks # <<>>
           /\ \E i \in 1..Len(showTasks) :
                  showTasks[i].handler = "mark" /\ showTasks[i].at = "track"
           /\ ShowId \in DOMAIN showStore
           /\ ShowId \in DOMAIN showStore'
           /\ Sends(ShowsTrack(ShowId, ToggleDefaults)))
             => TrackedFields(showStore'[ShowId]) = TrackedFields(showStore[ShowId])]_vars

\* ------------------------------------------------- requests of the home page
\* The requests fetchHomeData sends, as the API client builds them: none of
\* them passes a method option to fetchAPI, so each is a GET.
TrackingGetAll == [method |-> "GET", resource |-> "movies", id |-> 0]

TrackingShowsGetAll == [method |-> "GET", resource |-> "shows", id |-> 0]

TrackingGetRecommendations ==
    [method |-> "GET", resource |-> "recommendations", id |-> 0]

TmdbGetUpcomingMovies == [method |-> "GET", resource |-> "tmdb/movie/upcoming", id |-> 0]

TmdbGetUpcomingTVShows == [method |-> "GET", resource |-> "tmdb/tv/upcoming", id |-> 0]

\* fault variant of TmdbGetMovieDetail: the request of trackingAPI.track
TmdbGetMovieDetailTracks(movieId) ==
    [method |-> "POST", resource |-> "movie", id |-> movieId, body |-> MovieDefaults]

TmdbGetMovieDetail(movieId) ==
    [method |-> "GET", resource |-> "tmdb/movie", id |-> movieId]

TmdbGetTVShowDetail(showId) ==
    [method |-> "GET", resource |-> "tmdb/tv", id |-> showId]

TmdbGetSimilarTVShows(showId) ==
    [method |-> "GET", resource |-> "tmdb/tv/similar", id |-> showId]

\* the five requests of the first Promise.all
FirstRequests ==
    <<TrackingGetAll, TrackingShowsGetAll, TrackingGetRecommendations,
      TmdbGetUpcomingMovies, TmdbGetUpcomingTVShows>>

\* allMovies.map(m => tmdbAPI.getMovieDetail(m.tmdb_movie_id))
MovieDetailRequests ==
    [i \in 1..Len(allMovies) |-> TmdbGetMovieDetail(allMovies[i].tmdb_movie_id)]

\* allShows.map(s => tmdbAPI.getTVShowDetail(s.tmdb_show_id))
ShowDetailRequests ==
    [i \in 1..Len(allShows) |-> TmdbGetTVShowDetail(allShows[i].tmdb_show_id)]

\* tmdbAPI.getSimilarTVShows(seed id), the request EnrichShowsSettled queued
SimilarRequest ==
    <<TmdbGetSimilarTVShows(similarRequests[Len(similarRequests)])>>

\* The server handles a batch of requests one after another.
RECURSIVE ServeAll(_, _, _, _)
ServeAll(reqs, st, log, t) ==
    IF reqs = <<>> THEN [st |-> st, log |-> log, now |-> t]
    ELSE LET req == Head(reqs)
             r == Serve(req, st, t + 1)
         IN  ServeAll(Tail(reqs), r.st,
                      Logged(log, req, [threw |-> FALSE, status |-> r.status]),
                      IF Mutates(req) THEN t + 1 ELSE t)

\* The requests whose answers a step of fetchHomeData consumes have reached
\* the server by the time the step runs.
HomeRequestsServed(reqs) ==
    LET after == ServeAll(reqs, NowStores, requestLog, now)
    IN  /\ movieStore' = after.st.movies
        /\ showStore' = after.st.shows
        /\ episodeStore' = after.st.episodes
        /\ now' = after.now
        /\ requestLog' = after.log
        /\ UNCHANGED apiResult

\* The home page opens on a profile that tracks titles already.
InitHomeReads ==
    /\ InitPages /\ profile = <<>> /\ InitCaller /\ InitDetail /\ InitWidgets
    /\ movieStore = MovieId :> Stamp(MovieDefaults, 0, 0)
    /\ showStore = ShowId :> Stamp(ShowDefaults, 0, 0)
    /\ episodeStore \in PriorEpisodeStores \ {<<>>}
    /\ now = 0

outsideHomeReads == <<libraryVars, profile, detailVars, widgetVars>>

\* fetchHomeData with its requests; leaving the page at any step is a
\* behaviour that stops there.
NextHomeReads ==
    \/ StartFetch /\ UNCHANGED <<storeVars, callerVars, outsideHomeReads>>
    \/ FetchAllSettled(HeroInputs) /\ HomeRequestsServed(FirstRequests)
           /\ UNCHANGED outsideHomeReads
    \/ EnrichMoviesSettled /\ HomeRequestsServed(MovieDetailRequests)
           /\ UNCHANGED outsideHomeReads
    \/ EnrichShowsSettled /\ HomeRequestsServed(ShowDetailRequests)
           /\ UNCHANGED outsideHomeReads
    \/ SimilarSettled(HeroSimilar) /\ HomeRequestsServed(SimilarRequest)
           /\ UNCHANGED outsideHomeReads

SpecHomeReads == InitHomeReads /\ [][NextHomeReads]_vars

\* C22: building the home pools sends lookups only: no step of fetchHomeData,
\* from its start to its end, changes a tracking record or an episode record,
\* so a fetch abandoned after any step leaves the store as it found it.
C22_HomeOnlyReads ==
    [][/\ StoresAfter = NowStores
       /\ now' = now
       /\ requestLog' = requestLog
       /\ requestLog = <<>>]_vars

\* the fetch ran to its end with tracked films enriched, over a store that
\* holds records
C22_Witness ==
    /\ pc = "done"
    /\ error = "null"
    /\ Len(moviesWithDetails) > 0
    /\ similarRequests # <<>>
    /\ movieStore # <<>> /\ showStore # <<>> /\ episodeStore # <<>>

====
